---- MODULE Spec2Model ----
(***************************************************************************)
(* A model of the Sonos home controller: the UPnP/SOAP control layer       *)
(* (upnp.js) and the Spotify search-and-play orchestration                 *)
(* (sonos_home_controller.js).                                             *)
(*                                                                         *)
(* Text is modelled as a sequence of one-character strings, so that        *)
(* matching, splitting and percent-encoding are computed character by      *)
(* character as the JavaScript does.                                       *)
(***************************************************************************)
EXTENDS Integers, Sequences, FiniteSets, TLC

VARIABLES
    codecIn,    \* the string handed to a codec function
    codecOp,    \* which codec function was applied ("none" before the call)
    codecOut    \* what the call produced: a value or a thrown Error

codecVars == <<codecIn, codecOp, codecOut>>

VARIABLES
    xmlIn,      \* the arguments handed to escapeXml / buildSpotifyMetadata
    xmlOp,      \* which of the two was applied ("none" before the call)
    xmlOut      \* the string the call returned

xmlVars == <<xmlIn, xmlOp, xmlOut>>

VARIABLES
    rankIn,     \* the arguments handed to rankSearchResults
    rankOut,    \* what each call made so far returned, in order
    rankSteps   \* per input track, the amounts the call added to its score

rankVars == <<rankIn, rankOut, rankSteps>>

VARIABLES
    soap        \* one call of soapRequest or of a facade operation on its own

soapVars == <<soap>>

VARIABLES
    refresh     \* the token files, and the refresh calls of a timer and of requests

refreshVars == <<refresh>>

\* the state of the functions applied on their own
pureVars == <<codecVars, xmlVars, rankVars, soapVars, refreshVars>>

VARIABLES
    req,              \* each request's frame: the values of its call
    speaker,          \* the speaker: volume, loaded URI and transport state
    spotifyTokenFile  \* whether .spotify_tokens.json exists

playVars == <<req, speaker, spotifyTokenFile>>

-----------------------------------------------------------------------------
(* Characters and text                                                     *)

Digits == {"0", "1", "2", "3", "4", "5", "6", "7", "8", "9"}

LowerAlpha ==
    {"a", "b", "c", "d", "e", "f", "g", "h", "i", "j", "k", "l", "m",
     "n", "o", "p", "q", "r", "s", "t", "u", "v", "w", "x", "y", "z"}

UpperAlpha ==
    {"A", "B", "C", "D", "E", "F", "G", "H", "I", "J", "K", "L", "M",
     "N", "O", "P", "Q", "R", "S", "T", "U", "V", "W", "X", "Y", "Z"}

\* the character class [a-zA-Z0-9] of the track-id pattern
AlphaNum == LowerAlpha \cup UpperAlpha \cup Digits

\* the characters encodeURIComponent leaves as they are
UriUnreserved == AlphaNum \cup {"-", "_", ".", "!", "~", "*", "'", "(", ")"}

\* s.startsWith(p) at position i (1-based): p occurs in s at i
OccursAt(s, p, i) ==
    /\ i >= 1
    /\ i + Len(p) - 1 <= Len(s)
    /\ \A k \in 1..Len(p) : s[i + k - 1] = p[k]

\* s.includes(p)
Includes(s, p) == \E i \in 1..(Len(s) + 1) : OccursAt(s, p, i)

\* s.split(sep) for a one-character separator: the pieces between separators
RECURSIVE SplitFrom(_, _, _, _)
SplitFrom(s, sep, i, cur) ==
    IF i > Len(s) THEN <<cur>>
    ELSE IF s[i] = sep THEN <<cur>> \o SplitFrom(s, sep, i + 1, <<>>)
    ELSE SplitFrom(s, sep, i + 1, Append(cur, s[i]))

Split(s, sep) == SplitFrom(s, sep, 1, <<>>)

\* the two hex digits of the UTF-8 byte of each reserved ASCII character used
PercentCode(c) ==
    CASE c = ":" -> <<"%", "3", "A">>
      [] c = " " -> <<"%", "2", "0">>
      [] c = "%" -> <<"%", "2", "5">>
      [] c = "&" -> <<"%", "2", "6">>
      [] c = "?" -> <<"%", "3", "F">>
      [] c = "=" -> <<"%", "3", "D">>
      [] c = "/" -> <<"%", "2", "F">>
      [] c = "<" -> <<"%", "3", "C">>
      [] c = ">" -> <<"%", "3", "E">>
      [] c = "\"" -> <<"%", "2", "2">>

\* encodeURIComponent(s)
RECURSIVE encodeURIComponent(_)
encodeURIComponent(s) ==
    IF s = <<>> THEN <<>>
    ELSE (IF Head(s) \in UriUnreserved THEN <<Head(s)>> ELSE PercentCode(Head(s)))
         \o encodeURIComponent(Tail(s))

-----------------------------------------------------------------------------
(* URI codec: upnp.js spotifyToSonosUri, spotifyToSonosRadioUri            *)

\* "spotify:track:"
SpotifyTrackPrefix ==
    <<"s", "p", "o", "t", "i", "f", "y", ":", "t", "r", "a", "c", "k", ":">>

\* "spotify:trackradio:"
SpotifyRadioPrefix ==
    <<"s", "p", "o", "t", "i", "f", "y", ":",
      "t", "r", "a", "c", "k", "r", "a", "d", "i", "o", ":">>

\* "x-sonos-spotify:"
SonosScheme ==
    <<"x", "-", "s", "o", "n", "o", "s", "-", "s", "p", "o", "t", "i", "f", "y", ":">>

\* "?sid=12&flags=8224&sn=7"
SonosQuery ==
    <<"?", "s", "i", "d", "=", "1", "2", "&",
      "f", "l", "a", "g", "s", "=", "8", "2", "2", "4", "&", "s", "n", "=", "7">>

\* "Invalid Spotify URI format: "
InvalidUriText ==
    <<"I", "n", "v", "a", "l", "i", "d", " ", "S", "p", "o", "t", "i", "f", "y", " ",
      "U", "R", "I", " ", "f", "o", "r", "m", "a", "t", ":", " ">>

\* a returned value, and a thrown Error with its message
Returned(v) == [ok |-> TRUE, value |-> v]
Thrown(msg) == [ok |-> FALSE, error |-> msg]

\* the positions where /spotify:track:([a-zA-Z0-9]+)/ can match: the literal
\* followed by at least one id character.  The pattern has no ^ or $ anchor.
TrackMatchStarts(s) ==
    {i \in 1..Len(s) :
        /\ OccursAt(s, SpotifyTrackPrefix, i)
        /\ i + Len(SpotifyTrackPrefix) <= Len(s)
        /\ s[i + Len(SpotifyTrackPrefix)] \in AlphaNum}

\* the greedy run of id characters starting at position i
RECURSIVE AlphaNumRun(_, _)
AlphaNumRun(s, i) ==
    IF i <= Len(s) /\ s[i] \in AlphaNum
    THEN <<s[i]>> \o AlphaNumRun(s, i + 1)
    ELSE <<>>

\* spotifyUri.match(/spotify:track:([a-zA-Z0-9]+)/): found, and capture group 1
\* of the leftmost match
matchTrack(s) ==
    IF TrackMatchStarts(s) = {}
    THEN [found |-> FALSE, id |-> <<>>]
    ELSE LET i == CHOOSE j \in TrackMatchStarts(s) :
                      \A k \in TrackMatchStarts(s) : j <= k
         IN  [found |-> TRUE, id |-> AlphaNumRun(s, i + Len(SpotifyTrackPrefix))]

\* a variant that puts the reference into the URI as it is
spotifyToSonosUriUnencoded(spotifyUri) ==
    LET match == matchTrack(spotifyUri) IN
    IF ~match.found
    THEN Thrown(InvalidUriText \o spotifyUri)
    ELSE Returned(SonosScheme \o SpotifyTrackPrefix \o match.id \o SonosQuery)

\* spotifyToSonosUri (lines 83-97)
spotifyToSonosUri(spotifyUri) ==
    LET match == matchTrack(spotifyUri) IN
    IF ~match.found
    THEN Thrown(InvalidUriText \o spotifyUri)
    ELSE Returned(SonosScheme
                  \o encodeURIComponent(SpotifyTrackPrefix \o match.id)
                  \o SonosQuery)

\* a variant that encodes the track reference, as spotifyToSonosUri does
spotifyToSonosRadioUriAsTrack(spotifyUri) == spotifyToSonosUri(spotifyUri)

\* spotifyToSonosRadioUri (lines 284-296)
spotifyToSonosRadioUri(spotifyUri) ==
    LET match == matchTrack(spotifyUri) IN
    IF ~match.found
    THEN Thrown(InvalidUriText \o spotifyUri)
    ELSE Returned(SonosScheme
                  \o encodeURIComponent(SpotifyRadioPrefix \o match.id)
                  \o SonosQuery)

-----------------------------------------------------------------------------
(* Inputs of the codec                                                     *)

MaxIdLen == 3

\* characters an id position may hold: id characters and characters the
\* pattern's class excludes
IdChars == {"a", "Z", "7", "-", ":"}

RECURSIVE SeqsUpTo(_, _)
SeqsUpTo(S, n) ==
    IF n = 0 THEN {<<>>}
    ELSE LET shorter == SeqsUpTo(S, n - 1)
         IN  shorter \cup {Append(t, c) : t \in {u \in shorter : Len(u) = n - 1}, c \in S}

\* what may stand before the reference
LeadTexts == {<<>>, <<"x">>, <<" ">>}

\* the head of the reference: the expected literal and near misses
HeadTexts ==
    {SpotifyTrackPrefix,
     <<"s", "p", "o", "t", "i", "f", "y", ":", "a", "l", "b", "u", "m", ":">>,
     <<"S", "p", "o", "t", "i", "f", "y", ":", "t", "r", "a", "c", "k", ":">>,
     <<"s", "p", "o", "t", "i", "f", "y", ":", "t", "r", "a", "c", "k">>}

\* 'invalid-uri' and 'spotify:album:123' of tests/upnp.test.js
TestInvalidUris ==
    {<<"i", "n", "v", "a", "l", "i", "d", "-", "u", "r", "i">>,
     <<"s", "p", "o", "t", "i", "f", "y", ":", "a", "l", "b", "u", "m", ":", "1", "2", "3">>}

\* the id '4uLU6hMCjMI75M1A2tKUQC' of tests/upnp.test.js
TestTrackId ==
    <<"4", "u", "L", "U", "6", "h", "M", "C", "j", "M", "I",
      "7", "5", "M", "1", "A", "2", "t", "K", "U", "Q", "C">>

CodecInputs ==
    {lead \o head \o id :
        lead \in LeadTexts, head \in HeadTexts, id \in SeqsUpTo(IdChars, MaxIdLen)}
    \cup TestInvalidUris
    \cup {SpotifyTrackPrefix \o TestTrackId}

\* the reference is exactly spotify:track:<non-empty alphanumeric id>
IsExactTrackRef(s) ==
    /\ Len(s) > Len(SpotifyTrackPrefix)
    /\ OccursAt(s, SpotifyTrackPrefix, 1)
    /\ \A i \in (Len(SpotifyTrackPrefix) + 1)..Len(s) : s[i] \in AlphaNum

\* the id of an exact reference: what follows the literal
ExactTrackId(s) == SubSeq(s, Len(SpotifyTrackPrefix) + 1, Len(s))

-----------------------------------------------------------------------------
(* The codec applied to one input                                          *)

NotCalled == [ok |-> FALSE, error |-> <<>>]

\* no codec call is under way
CodecIdle ==
    /\ codecIn = <<>>
    /\ codecOp = "none"
    /\ codecOut = NotCalled

CallSpotifyToSonosUri ==
    /\ codecOp = "none"
    /\ codecOp' = "spotifyToSonosUri"
    /\ codecOut' = spotifyToSonosUri(codecIn)
    /\ UNCHANGED <<codecIn, xmlVars, rankVars, soapVars, refreshVars, playVars>>

CallSpotifyToSonosRadioUri ==
    /\ codecOp = "none"
    /\ codecOp' = "spotifyToSonosRadioUri"
    /\ codecOut' = spotifyToSonosRadioUri(codecIn)
    /\ UNCHANGED <<codecIn, xmlVars, rankVars, soapVars, refreshVars, playVars>>

NextCodec ==
    \/ CallSpotifyToSonosUri
    \/ CallSpotifyToSonosRadioUri

-----------------------------------------------------------------------------
(* JavaScript values                                                       *)

\* null or undefined, and a present value
None == <<>>
Some(x) == <<x>>

\* n.toString() for n >= 0
DigitText == <<"0", "1", "2", "3", "4", "5", "6", "7", "8", "9">>

RECURSIVE DecimalText(_)
DecimalText(n) ==
    IF n < 10 THEN <<DigitText[n + 1]>>
    ELSE DecimalText(n \div 10) \o <<DigitText[(n % 10) + 1]>>

\* "undefined"
UndefinedText ==
    <<"u", "n", "d", "e", "f", "i", "n", "e", "d">>

\* a value of any type interpolated into a template literal
TemplateText(v) ==
    CASE v.type = "undefined" -> UndefinedText
      [] v.type = "number" -> DecimalText(v.number)
      [] OTHER -> v.text

UndefinedValue == [type |-> "undefined", text |-> <<>>, number |-> 0]
BooleanValue(b) == [type |-> "boolean", text |-> <<>>, number |-> IF b THEN 1 ELSE 0]
StringValue(t) == [type |-> "string", text |-> t, number |-> 0]
NumberValue(n) == [type |-> "number", text |-> <<>>, number |-> n]

-----------------------------------------------------------------------------
(* SOAP transport: upnp.js soapRequest                                     *)

\* "SOAP request failed: "
SoapFailedText ==
    <<"S", "O", "A", "P", " ", "r", "e", "q", "u", "e", "s", "t", " ", "f",
      "a", "i", "l", "e", "d", ":", " ">>

\* "SOAP request error: "
SoapErrorText ==
    <<"S", "O", "A", "P", " ", "r", "e", "q", "u", "e", "s", "t", " ", "e",
      "r", "r", "o", "r", ":", " ">>

\* " - "
DashText == <<" ", "-", " ">>

\* "connect ECONNREFUSED"
ConnRefusedText ==
    <<"c", "o", "n", "n", "e", "c", "t", " ", "E", "C", "O", "N", "N", "R",
      "E", "F", "U", "S", "E", "D">>

\* what comes back for one HTTP request to the speaker: a response with a
\* status and a body, or a network-level error ('error' event) with a message
HttpResponse(status, data) == [net |-> FALSE, status |-> status, data |-> data]
NetworkError(message) == [net |-> TRUE, status |-> 0, data |-> message]

SpeakerReplies ==
    {HttpResponse(200, <<>>), HttpResponse(500, <<>>), NetworkError(ConnRefusedText)}

\* a variant that takes every status below 400 for a success
soapRequestBelow400(reply) ==
    IF reply.net
    THEN Thrown(SoapErrorText \o reply.data)
    ELSE IF reply.status >= 200 /\ reply.status < 400
         THEN Returned(reply.data)
         ELSE Thrown(SoapFailedText \o DecimalText(reply.status) \o DashText \o reply.data)

\* how the promise of soapRequest settles for a reply (upnp.js 43-59)
soapRequest(reply) ==
    IF reply.net
    THEN Thrown(SoapErrorText \o reply.data)
    ELSE IF reply.status >= 200 /\ reply.status < 300
         THEN Returned(reply.data)
         ELSE Thrown(SoapFailedText \o DecimalText(reply.status) \o DashText \o reply.data)

-----------------------------------------------------------------------------
(* Speaker control facade: upnp.js buildSpotifyMetadata (the substituted   *)
(* values), setAVTransportURI, play, setVolume                             *)

\* "Unknown Track"
UnknownTrackText ==
    <<"U", "n", "k", "n", "o", "w", "n", " ", "T", "r", "a", "c", "k">>

\* " Radio"
RadioSuffixText == <<" ", "R", "a", "d", "i", "o">>

\* "str.replace is not a function"
NotAFunctionText ==
    <<"s", "t", "r", ".", "r", "e", "p", "l", "a", "c", "e", " ", "i", "s",
      " ", "n", "o", "t", " ", "a", " ", "f", "u", "n", "c", "t", "i", "o",
      "n">>

\* the values buildSpotifyMetadata substitutes into the DIDL-Lite document:
\* the title (defaulted when undefined; escapeXml throws a TypeError on a
\* value that is not a string) and the track id
metadataValues(trackInfo) ==
    IF trackInfo.title.type = "undefined"
    THEN Returned([title |-> UnknownTrackText, trackId |-> trackInfo.trackId])
    ELSE IF trackInfo.title.type = "string"
         THEN Returned([title |-> trackInfo.title.text, trackId |-> trackInfo.trackId])
         ELSE Thrown(NotAFunctionText)

\* a SOAP action as it is sent to the speaker
SoapAction(action, volume, uri, meta) ==
    [action |-> action, volume |-> volume, uri |-> uri, meta |-> meta]

NoMeta == [title |-> <<>>, trackId |-> <<>>]

\* spotifyUri.split(':')[2]; undefined is rendered by the template as text
SplitTrackId(spotifyUri) ==
    LET parts == Split(spotifyUri, ":")
    IN  IF Len(parts) >= 3 THEN parts[3] ELSE UndefinedText

\* setAVTransportURI up to its soapRequest call: the action it sends, or the
\* Error thrown before anything is sent (upnp.js 135-156)
setAVTransportURI(spotifyUri, trackInfo) ==
    LET sonosUri == spotifyToSonosUri(spotifyUri) IN
    IF ~sonosUri.ok THEN sonosUri
    ELSE LET metadata == metadataValues([title |-> trackInfo.title,
                                         trackId |-> SplitTrackId(spotifyUri)])
         IN  IF ~metadata.ok THEN metadata
             ELSE Returned(SoapAction("SetAVTransportURI", None,
                                      sonosUri.value, metadata.value))

\* the radio SetAVTransportURI of playSpotifyTrackWithRadio (upnp.js 326-348)
radioTransportURI(spotifyUri, trackInfo) ==
    LET radioUri == spotifyToSonosRadioUri(spotifyUri) IN
    IF ~radioUri.ok THEN radioUri
    ELSE LET radioMetadata ==
                 metadataValues(
                     [title |-> StringValue(TemplateText(trackInfo.title)
                                            \o RadioSuffixText),
                      trackId |-> SplitTrackId(spotifyUri)])
         IN  IF ~radioMetadata.ok THEN radioMetadata
             ELSE Returned(SoapAction("SetAVTransportURI", None,
                                      radioUri.value, radioMetadata.value))

\* play(): upnp.js 161-175
play == SoapAction("Play", None, <<>>, NoMeta)

\* stop(): upnp.js 180-191
stop == SoapAction("Stop", None, <<>>, NoMeta)

\* pause(): upnp.js 196-207
pause == SoapAction("Pause", None, <<>>, NoMeta)

\* setVolume(volume): upnp.js 212-227
setVolume(volume) == SoapAction("SetVolume", Some(volume), <<>>, NoMeta)

\* getTransportInfo(): upnp.js 232-243
getTransportInfo == SoapAction("GetTransportInfo", None, <<>>, NoMeta)

\* the speaker after it has accepted an action
SpeakerAfter(s, a) ==
    CASE a.action = "SetVolume" -> [s EXCEPT !.volume = a.volume[1]]
      [] a.action = "SetAVTransportURI" -> [s EXCEPT !.uri = a.uri]
      [] a.action = "Play" -> [s EXCEPT !.state = "PLAYING"]
      [] OTHER -> s

-----------------------------------------------------------------------------
(* Display document: upnp.js escapeXml, buildSpotifyMetadata               *)

\* the replacement strings of escapeXml
AmpText ==
    <<"&", "a", "m", "p", ";">>
LtText ==
    <<"&", "l", "t", ";">>
GtText ==
    <<"&", "g", "t", ";">>
QuotText ==
    <<"&", "q", "u", "o", "t", ";">>
AposText ==
    <<"&", "a", "p", "o", "s", ";">>

\* s.replace(/c/g, rep) for a one-character pattern c
RECURSIVE replaceAll(_, _, _)
replaceAll(s, c, rep) ==
    IF s = <<>> THEN <<>>
    ELSE (IF Head(s) = c THEN rep ELSE <<Head(s)>>) \o replaceAll(Tail(s), c, rep)

\* a variant that replaces & after the other four characters
escapeXmlAmpersandLast(str) ==
    replaceAll(
        replaceAll(
            replaceAll(
                replaceAll(
                    replaceAll(str, "<", LtText),
                    ">", GtText),
                "\"", QuotText),
            "'", AposText),
        "&", AmpText)

\* escapeXml(str): the five replacements in the order of the source
escapeXml(str) ==
    replaceAll(
        replaceAll(
            replaceAll(
                replaceAll(
                    replaceAll(str, "&", AmpText),
                    "<", LtText),
                ">", GtText),
            "\"", QuotText),
        "'", AposText)

\* the pieces of the DIDL-Lite template literal between its substitutions
DidlHead ==
    <<"<", "D", "I", "D", "L", "-", "L", "i", "t", "e", " ", "x", "m", "l",
      "n", "s", ":", "d", "c", "=", "\"", "h", "t", "t", "p", ":", "/",
      "/", "p", "u", "r", "l", ".", "o", "r", "g", "/", "d", "c", "/", "e",
      "l", "e", "m", "e", "n", "t", "s", "/", "1", ".", "1", "/", "\"",
      " ", "x", "m", "l", "n", "s", ":", "u", "p", "n", "p", "=", "\"",
      "u", "r", "n", ":", "s", "c", "h", "e", "m", "a", "s", "-", "u", "p",
      "n", "p", "-", "o", "r", "g", ":", "m", "e", "t", "a", "d", "a", "t",
      "a", "-", "1", "-", "0", "/", "u", "p", "n", "p", "/", "\"", " ",
      "x", "m", "l", "n", "s", ":", "r", "=", "\"", "u", "r", "n", ":",
      "s", "c", "h", "e", "m", "a", "s", "-", "r", "i", "n", "c", "o", "n",
      "n", "e", "t", "w", "o", "r", "k", "s", "-", "c", "o", "m", ":", "m",
      "e", "t", "a", "d", "a", "t", "a", "-", "1", "-", "0", "/", "\"",
      " ", "x", "m", "l", "n", "s", "=", "\"", "u", "r", "n", ":", "s",
      "c", "h", "e", "m", "a", "s", "-", "u", "p", "n", "p", "-", "o", "r",
      "g", ":", "m", "e", "t", "a", "d", "a", "t", "a", "-", "1", "-", "0",
      "/", "D", "I", "D", "L", "-", "L", "i", "t", "e", "/", "\"", ">",
      "\n", " ", " ", "<", "i", "t", "e", "m", " ", "i", "d", "=", "\"",
      "0", "0", "0", "3", "2", "0", "2", "0", "s", "p", "o", "t", "i", "f",
      "y", "%", "3", "a", "t", "r", "a", "c", "k", "%", "3", "a">>

DidlTitleOpen ==
    <<"\"", " ", "p", "a", "r", "e", "n", "t", "I", "D", "=", "\"", "\"",
      " ", "r", "e", "s", "t", "r", "i", "c", "t", "e", "d", "=", "\"",
      "t", "r", "u", "e", "\"", ">", "\n", " ", " ", " ", " ", "<", "d",
      "c", ":", "t", "i", "t", "l", "e", ">">>

DidlCreatorOpen ==
    <<"<", "/", "d", "c", ":", "t", "i", "t", "l", "e", ">", "\n", " ",
      " ", " ", " ", "<", "u", "p", "n", "p", ":", "c", "l", "a", "s", "s",
      ">", "o", "b", "j", "e", "c", "t", ".", "i", "t", "e", "m", ".", "a",
      "u", "d", "i", "o", "I", "t", "e", "m", ".", "m", "u", "s", "i", "c",
      "T", "r", "a", "c", "k", "<", "/", "u", "p", "n", "p", ":", "c", "l",
      "a", "s", "s", ">", "\n", " ", " ", " ", " ", "<", "d", "c", ":",
      "c", "r", "e", "a", "t", "o", "r", ">">>

DidlAlbumOpen ==
    <<"<", "/", "d", "c", ":", "c", "r", "e", "a", "t", "o", "r", ">",
      "\n", " ", " ", " ", " ", "<", "u", "p", "n", "p", ":", "a", "l",
      "b", "u", "m", ">">>

DidlAlbumClose ==
    <<"<", "/", "u", "p", "n", "p", ":", "a", "l", "b", "u", "m", ">",
      "\n", " ", " ", " ", " ">>

DidlArtOpen ==
    <<"<", "u", "p", "n", "p", ":", "a", "l", "b", "u", "m", "A", "r", "t",
      "U", "R", "I", ">">>

DidlArtClose ==
    <<"<", "/", "u", "p", "n", "p", ":", "a", "l", "b", "u", "m", "A", "r",
      "t", "U", "R", "I", ">">>

DidlResOpen ==
    <<"\n", " ", " ", " ", " ", "<", "r", "e", "s", " ", "p", "r", "o",
      "t", "o", "c", "o", "l", "I", "n", "f", "o", "=", "\"", "s", "o",
      "n", "o", "s", ".", "c", "o", "m", "-", "s", "p", "o", "t", "i", "f",
      "y", ":", "*", ":", "a", "u", "d", "i", "o", "/", "x", "-", "s", "p",
      "o", "t", "i", "f", "y", ":", "*", "\"", ">">>

DidlTail ==
    <<"<", "/", "r", "e", "s", ">", "\n", " ", " ", "<", "/", "i", "t",
      "e", "m", ">", "\n", "<", "/", "D", "I", "D", "L", "-", "L", "i",
      "t", "e", ">">>

\* the defaults of the destructuring
UnknownArtistText ==
    <<"U", "n", "k", "n", "o", "w", "n", " ", "A", "r", "t", "i", "s", "t">>

UnknownAlbumText ==
    <<"U", "n", "k", "n", "o", "w", "n", " ", "A", "l", "b", "u", "m">>

\* "x-sonos-spotify:spotify%3atrack%3a"
ResourcePrefix ==
    <<"x", "-", "s", "o", "n", "o", "s", "-", "s", "p", "o", "t", "i", "f",
      "y", ":", "s", "p", "o", "t", "i", "f", "y", "%", "3", "a", "t", "r",
      "a", "c", "k", "%", "3", "a">>

\* a variant of a destructuring default that leaves an absent value empty
withoutDefault(v, d) == IF v = None THEN <<>> ELSE v[1]

\* a destructuring default: d when the property is undefined
withDefault(v, d) == IF v = None THEN d ELSE v[1]

\* buildSpotifyMetadata(trackInfo): the DIDL-Lite document.  Each property of
\* trackInfo is None (absent) or Some(text).
buildSpotifyMetadata(trackInfo) ==
    LET title == withDefault(trackInfo.title, UnknownTrackText)
        artist == withDefault(trackInfo.artist, UnknownArtistText)
        album == withDefault(trackInfo.album, UnknownAlbumText)
        albumArtUri == withDefault(trackInfo.albumArtUri, <<>>)
        trackId == withDefault(trackInfo.trackId, <<>>)
        resourceUri == IF trackId # <<>>
                       THEN ResourcePrefix \o trackId \o SonosQuery
                       ELSE <<>>
    IN  DidlHead \o trackId
        \o DidlTitleOpen \o escapeXml(title)
        \o DidlCreatorOpen \o escapeXml(artist)
        \o DidlAlbumOpen \o escapeXml(album)
        \o DidlAlbumClose
        \o (IF albumArtUri # <<>>
            THEN DidlArtOpen \o escapeXml(albumArtUri) \o DidlArtClose
            ELSE <<>>)
        \o DidlResOpen \o escapeXml(resourceUri)
        \o DidlTail

-----------------------------------------------------------------------------
(* Inputs of escapeXml and buildSpotifyMetadata                            *)

MaxXmlLen == 3

\* the five special characters, the ';' that ends an entity, and a letter
XmlChars == {"&", "<", ">", "\"", "'", ";", "a"}

\* the strings of tests/upnp.test.js (lines 25-33)
TestXmlTexts ==
    {<<"H", "e", "l", "l", "o", " ", "&", " ", "W", "o", "r", "l", "d">>,
     <<"<", "t", "a", "g", ">">>,
     <<"\"", "q", "u", "o", "t", "e", "s", "\"">>,
     <<"'", "a", "p", "o", "s", "t", "r", "o", "p", "h", "e", "'">>,
     <<"H", "e", "l", "l", "o", " ", "W", "o", "r", "l", "d">>}

XmlTexts == SeqsUpTo(XmlChars, MaxXmlLen) \cup TestXmlTexts

\* values of a free-text property: absent, plain, and with special characters
FreeTexts == {None, Some(<<"T", "t">>), Some(<<"<", "&", "'", ">", "\"">>)}

\* values of albumArtUri and of trackId: absent, empty, plain, and with
\* special characters
ArtUris == {None, Some(<<>>), Some(<<"h", "/", "i">>), Some(<<"h", "?", "a", "&", "b">>)}
TrackIds == {None, Some(<<>>), Some(<<"4", "u", "L">>), Some(<<"a", "\"", "<", "b", "&">>)}

TrackInfos ==
    [title : FreeTexts, artist : FreeTexts, album : FreeTexts,
     albumArtUri : ArtUris, trackId : TrackIds]

\* buildSpotifyMetadata({})
EmptyTrackInfo ==
    [title |-> None, artist |-> None, album |-> None,
     albumArtUri |-> None, trackId |-> None]

XmlInputs ==
    {[str |-> s, trackInfo |-> EmptyTrackInfo] : s \in XmlTexts}
    \cup {[str |-> <<>>, trackInfo |-> i] : i \in TrackInfos}

-----------------------------------------------------------------------------
(* escapeXml and buildSpotifyMetadata applied to one input                 *)

\* neither function is called
XmlIdle ==
    /\ xmlIn = [str |-> <<>>, trackInfo |-> EmptyTrackInfo]
    /\ xmlOp = "none"
    /\ xmlOut = <<>>

CallEscapeXml ==
    /\ xmlOp = "none"
    /\ xmlOp' = "escapeXml"
    /\ xmlOut' = escapeXml(xmlIn.str)
    /\ UNCHANGED <<xmlIn, codecVars, rankVars, soapVars, refreshVars, playVars>>

CallBuildSpotifyMetadata ==
    /\ xmlOp = "none"
    /\ xmlOp' = "buildSpotifyMetadata"
    /\ xmlOut' = buildSpotifyMetadata(xmlIn.trackInfo)
    /\ UNCHANGED <<xmlIn, codecVars, rankVars, soapVars, refreshVars, playVars>>

NextXml ==
    \/ CallEscapeXml
    \/ CallBuildSpotifyMetadata

-----------------------------------------------------------------------------
(* Text functions of the search ranker                                     *)

\* the characters \s matches, of those used
Whitespace == {" "}

toLowerCaseChar(c) ==
    CASE c = "A" -> "a" [] c = "B" -> "b" [] c = "C" -> "c" [] c = "D" -> "d"
      [] c = "E" -> "e" [] c = "F" -> "f" [] c = "G" -> "g" [] c = "H" -> "h"
      [] c = "I" -> "i" [] c = "J" -> "j" [] c = "K" -> "k" [] c = "L" -> "l"
      [] c = "M" -> "m" [] c = "N" -> "n" [] c = "O" -> "o" [] c = "P" -> "p"
      [] c = "Q" -> "q" [] c = "R" -> "r" [] c = "S" -> "s" [] c = "T" -> "t"
      [] c = "U" -> "u" [] c = "V" -> "v" [] c = "W" -> "w" [] c = "X" -> "x"
      [] c = "Y" -> "y" [] c = "Z" -> "z"
      [] OTHER -> c

\* s.toLowerCase()
toLowerCase(s) == [i \in 1..Len(s) |-> toLowerCaseChar(s[i])]

\* s.trim()
RECURSIVE trimStart(_)
trimStart(s) ==
    IF s # <<>> /\ Head(s) \in Whitespace THEN trimStart(Tail(s)) ELSE s

RECURSIVE trimEnd(_)
trimEnd(s) ==
    IF s # <<>> /\ s[Len(s)] \in Whitespace
    THEN trimEnd(SubSeq(s, 1, Len(s) - 1))
    ELSE s

trim(s) == trimEnd(trimStart(s))

\* s.split(/\s+/): the pieces between maximal runs of whitespace; a run at
\* either end leaves an empty piece there, and '' splits into ['']
RECURSIVE splitWhitespaceFrom(_, _, _)
splitWhitespaceFrom(s, i, cur) ==
    IF i > Len(s) THEN <<cur>>
    ELSE IF s[i] \in Whitespace
         THEN IF i < Len(s) /\ s[i + 1] \in Whitespace
              THEN splitWhitespaceFrom(s, i + 1, cur)
              ELSE <<cur>> \o splitWhitespaceFrom(s, i + 1, <<>>)
         ELSE splitWhitespaceFrom(s, i + 1, Append(cur, s[i]))

splitWhitespace(s) == splitWhitespaceFrom(s, 1, <<>>)

\* s.replace(/\s+/g, '')
removeWhitespace(s) == SelectSeq(s, LAMBDA c : c \notin Whitespace)

-----------------------------------------------------------------------------
(* Search ranker: sonos_home_controller.js rankSearchResults               *)

\* Scores are kept in half points, since a query word found only in the
\* artist counts 0.5 of a match: Points(n) is the score n of the source.
Points(n) == 2 * n

\* "Cannot read properties of undefined (reading 'toLowerCase')"
ReadingLowerText ==
    <<"C", "a", "n", "n", "o", "t", " ", "r", "e", "a", "d", " ", "p", "r",
      "o", "p", "e", "r", "t", "i", "e", "s", " ", "o", "f", " ", "u", "n",
      "d", "e", "f", "i", "n", "e", "d", " ", "(", "r", "e", "a", "d", "i",
      "n", "g", " ", "'", "t", "o", "L", "o", "w", "e", "r", "C", "a", "s",
      "e", "'", ")">>

\* "Cannot read properties of undefined (reading 'name')"
ReadingNameText ==
    <<"C", "a", "n", "n", "o", "t", " ", "r", "e", "a", "d", " ", "p", "r",
      "o", "p", "e", "r", "t", "i", "e", "s", " ", "o", "f", " ", "u", "n",
      "d", "e", "f", "i", "n", "e", "d", " ", "(", "r", "e", "a", "d", "i",
      "n", "g", " ", "'", "n", "a", "m", "e", "'", ")">>

\* a track record of the search response.  name and popularity are None when
\* the record has none; artists holds the artists' names in order.
Track(name, artists, popularity, uri) ==
    [name |-> name, artists |-> artists, popularity |-> popularity, uri |-> uri,
     relevanceScore |-> 0]

\* the number of matches of the word-by-word loop, in halves (lines 313-324)
RECURSIVE matchingWords(_, _, _)
matchingWords(queryWords, trackWords, fullWords) ==
    IF queryWords = <<>> THEN 0
    ELSE LET qWord == Head(queryWords)
             inTrack == \E i \in 1..Len(trackWords) :
                            Includes(trackWords[i], qWord) \/ Includes(qWord, trackWords[i])
             inFull == \E i \in 1..Len(fullWords) :
                            Includes(fullWords[i], qWord) \/ Includes(qWord, fullWords[i])
         IN  (IF inTrack THEN 2 ELSE IF inFull THEN 1 ELSE 0)
             + matchingWords(Tail(queryWords), trackWords, fullWords)

\* t.popularity || 0
popularityOrZero(t) == IF t.popularity = None THEN 0 ELSE t.popularity[1]

\* a variant of the track filter bonus that does not test the filter for ''
trackBonusUnguarded(normalizedTrack, trackName) ==
    IF trackName = normalizedTrack THEN Points(100)
    ELSE IF Includes(trackName, normalizedTrack) THEN Points(50)
         ELSE 0

\* a variant of the track filter bonus that gives an equal name no more than
\* a name containing the filter
trackBonusPartialOnly(normalizedTrack, trackName) ==
    IF normalizedTrack # <<>> /\ Includes(trackName, normalizedTrack)
    THEN Points(50)
    ELSE 0

\* the track filter bonus (lines 287-292)
trackBonus(normalizedTrack, trackName) ==
    IF normalizedTrack # <<>> /\ trackName = normalizedTrack THEN Points(100)
    ELSE IF normalizedTrack # <<>> /\ Includes(trackName, normalizedTrack)
         THEN Points(50)
         ELSE 0

\* the artist filter bonus (lines 294-299)
artistBonus(normalizedArtist, artistNames) ==
    IF /\ normalizedArtist # <<>>
       /\ \E i \in 1..Len(artistNames) : artistNames[i] = normalizedArtist
    THEN Points(100)
    ELSE IF /\ normalizedArtist # <<>>
            /\ \E i \in 1..Len(artistNames) :
                   Includes(artistNames[i], normalizedArtist)
         THEN Points(50)
         ELSE 0

\* the bonus for the query found in "primaryArtist trackName" (lines 303-306)
fullBonus(normalizedQuery, primaryArtist, trackName) ==
    LET fullTrackString == toLowerCase(primaryArtist \o <<" ">> \o trackName)
    IN  IF Includes(fullTrackString, normalizedQuery) THEN Points(30) ELSE 0

\* a variant that looks for the query in the track name
containsBonusQueryInName(normalizedQuery, trackName) ==
    IF Includes(trackName, normalizedQuery) THEN Points(40) ELSE 0

\* the bonus for the track name found in the query (lines 307-310)
containsBonus(normalizedQuery, trackName) ==
    IF Includes(normalizedQuery, trackName) THEN Points(40) ELSE 0

\* a variant that also counts the query words of one or two characters
wordBonusShortWords(normalizedQuery, primaryArtist, trackName) ==
    LET queryWords == splitWhitespace(normalizedQuery)
        trackWords == splitWhitespace(trackName)
        fullWords == splitWhitespace(primaryArtist \o <<" ">> \o trackName)
    IN  matchingWords(queryWords, trackWords, fullWords) * 25

\* the word-by-word bonus (lines 312-328)
wordBonus(normalizedQuery, primaryArtist, trackName) ==
    LET queryWords == SelectSeq(splitWhitespace(normalizedQuery),
                                LAMBDA w : Len(w) > 2)
        trackWords == splitWhitespace(trackName)
        fullWords == splitWhitespace(primaryArtist \o <<" ">> \o trackName)
    IN  matchingWords(queryWords, trackWords, fullWords) * 25

\* a variant that compares the names with their whitespace left in
fuzzyBonusSpaced(normalizedQuery, trackName) ==
    IF trackName = normalizedQuery THEN Points(80)
    ELSE IF Includes(trackName, normalizedQuery) THEN Points(50)
         ELSE 0

\* the bonus for a match of the track name ignoring spaces (lines 331-340)
fuzzyBonus(normalizedQuery, trackName) ==
    LET normalizedQueryNoSpaces == removeWhitespace(normalizedQuery)
        trackNameNoSpaces == removeWhitespace(trackName)
    IN  IF trackNameNoSpaces = normalizedQueryNoSpaces THEN Points(80)
        ELSE IF Includes(trackNameNoSpaces, normalizedQueryNoSpaces)
             THEN Points(50)
             ELSE 0

\* the bonus for a match of artist + track ignoring spaces (lines 333-345)
fuzzyFullBonus(normalizedQuery, primaryArtist, trackName) ==
    LET normalizedQueryNoSpaces == removeWhitespace(normalizedQuery)
        fullStringNoSpaces == removeWhitespace(primaryArtist \o trackName)
    IN  IF Includes(fullStringNoSpaces, normalizedQueryNoSpaces)
        THEN Points(40)
        ELSE 0

\* the amounts the map callback adds to score for one track whose name is
\* present (lines 281-346), in half points, one field per statement group;
\* the groups of the free-form query add nothing when the query is ''
scoreSteps(t, normalizedQuery, normalizedArtist, normalizedTrack) ==
    LET trackName == toLowerCase(t.name[1])
        artistNames == [i \in 1..Len(t.artists) |-> toLowerCase(t.artists[i])]
        primaryArtist == IF Len(artistNames) > 0 THEN artistNames[1] ELSE <<>>
        asked == normalizedQuery # <<>>
    IN  [popularity |-> Points(popularityOrZero(t)),
         track |-> trackBonus(normalizedTrack, trackName),
         artist |-> artistBonus(normalizedArtist, artistNames),
         full |-> IF asked THEN fullBonus(normalizedQuery, primaryArtist, trackName)
                  ELSE 0,
         contains |-> IF asked THEN containsBonus(normalizedQuery, trackName) ELSE 0,
         words |-> IF asked THEN wordBonus(normalizedQuery, primaryArtist, trackName)
                   ELSE 0,
         fuzzy |-> IF asked THEN fuzzyBonus(normalizedQuery, trackName) ELSE 0,
         fuzzyFull |-> IF asked
                       THEN fuzzyFullBonus(normalizedQuery, primaryArtist, trackName)
                       ELSE 0]

\* the largest of the bonuses of a track
LargestBonus(steps) ==
    LET bonuses == {steps.track, steps.artist, steps.full, steps.contains,
                    steps.words, steps.fuzzy, steps.fuzzyFull}
    IN  CHOOSE b \in bonuses : \A c \in bonuses : c <= b

\* a variant in which only the largest bonus counts
relevanceScoreLargestBonus(t, normalizedQuery, normalizedArtist, normalizedTrack) ==
    LET steps == scoreSteps(t, normalizedQuery, normalizedArtist, normalizedTrack)
    IN  steps.popularity + LargestBonus(steps)

\* the score the map callback returns for the track, in half points
relevanceScore(t, normalizedQuery, normalizedArtist, normalizedTrack) ==
    LET steps == scoreSteps(t, normalizedQuery, normalizedArtist, normalizedTrack)
    IN  steps.popularity + steps.track + steps.artist + steps.full
        + steps.contains + steps.words + steps.fuzzy + steps.fuzzyFull

\* a variant of the insertion that puts a track before those of equal score
RECURSIVE insertByScoreBeforeTies(_, _)
insertByScoreBeforeTies(sorted, t) ==
    IF sorted = <<>> THEN <<t>>
    ELSE IF Head(sorted).relevanceScore > t.relevanceScore
         THEN <<Head(sorted)>> \o insertByScoreBeforeTies(Tail(sorted), t)
         ELSE <<t>> \o sorted

\* Array.prototype.sort with (a, b) => b.relevanceScore - a.relevanceScore:
\* a stable sort, by non-increasing score
RECURSIVE insertByScore(_, _)
insertByScore(sorted, t) ==
    IF sorted = <<>> THEN <<t>>
    ELSE IF Head(sorted).relevanceScore >= t.relevanceScore
         THEN <<Head(sorted)>> \o insertByScore(Tail(sorted), t)
         ELSE <<t>> \o sorted

RECURSIVE sortByScore(_)
sortByScore(ts) ==
    IF ts = <<>> THEN <<>>
    ELSE insertByScore(sortByScore(SubSeq(ts, 1, Len(ts) - 1)), ts[Len(ts)])

\* rankSearchResults(tracks, query, artist, track): the ranked tracks, or the
\* TypeError of t.name.toLowerCase() on a record without a name
rankSearchResults(tracks, query, artist, track) ==
    LET normalizedQuery == trim(toLowerCase(query))
        normalizedArtist == trim(toLowerCase(artist))
        normalizedTrack == trim(toLowerCase(track))
    IN  IF \E i \in 1..Len(tracks) : tracks[i].name = None
        THEN Thrown(ReadingLowerText)
        ELSE Returned(sortByScore(
                 [i \in 1..Len(tracks) |->
                     [tracks[i] EXCEPT !.relevanceScore =
                         relevanceScore(tracks[i], normalizedQuery,
                                        normalizedArtist, normalizedTrack)]]))

-----------------------------------------------------------------------------
(* Inputs of rankSearchResults                                             *)

MaxTracks == 2
MaxRankCalls == 2

RankUri(c) == SpotifyTrackPrefix \o <<c>>

\* well-formed track records: two that differ in the uri only, a name
\* written without its space and several artists, a record without artists
\* and popularity, a name with whitespace around and within
RankTrackA == Track(Some(<<"N", "e", "w", " ", "B", "o", "r", "n">>), << <<"M", "u", "s", "e">> >>, Some(70), RankUri("a"))
RankTrackB == Track(Some(<<"N", "e", "w", " ", "B", "o", "r", "n">>), << <<"M", "u", "s", "e">> >>, Some(70), RankUri("b"))
RankTrackC == Track(Some(<<"N", "e", "w", "b", "o", "r", "n">>), << <<"A", "m", "u", "s", "e">>, <<"M", "u", "s", "e">> >>, Some(60), RankUri("c"))
RankTrackD == Track(Some(<<"B", "o", "r", "n">>), <<>>, None, RankUri("d"))
RankTrackE == Track(Some(<<" ", "H", "e", "y", " ", " ", "N", "e", "w">>), << <<"M", "u">> >>, Some(0), RankUri("e"))

RankPool == {RankTrackA, RankTrackB, RankTrackC, RankTrackD, RankTrackE}

\* the lists of up to MaxTracks different tracks, and one list of all
RankLists ==
    {l \in SeqsUpTo(RankPool, MaxTracks) :
        \A i, j \in 1..Len(l) : i # j => l[i] # l[j]}
    \cup {<<RankTrackE, RankTrackA, RankTrackD, RankTrackB, RankTrackC>>}

RankQueries ==
    {<<>>, <<" ", " ">>, <<"n", "e", "w", " ", "b", "o", "r", "n">>, <<"N", "e", "w", "b", "o", "r", "n">>, <<"m", "u", "s", "e", " ", "n", "e", "w", " ", "b", "o", "r", "n">>, <<"n", "e", "w">>, <<"m", "y", " ", "m", "u", "s", "e", " ">>}

RankArtists == {<<>>, <<" ", "M", "u", "s", "e", " ">>, <<"m", "u">>}

RankTrackFilters == {<<>>, <<"N", "e", "w", " ", "B", "o", "r", "n">>, <<"b", "o", "r", "n", " ">>}

\* the largest popularity the search endpoint reports
MaxPopularity == 100

\* "Starlight", and the two records of the Starlight scenario: the studio
\* version with popularity 70 and a live version of any popularity
StarlightText == <<"S", "t", "a", "r", "l", "i", "g", "h", "t">>
StarlightStudio == Track(Some(StarlightText), << <<"M", "u", "s", "e">> >>, Some(70), RankUri("s"))
StarlightLive(popularity) ==
    Track(Some(StarlightText \o <<" ", "-", " ", "L", "i", "v", "e">>),
          << <<"M", "u", "s", "e">> >>, Some(popularity), RankUri("l"))

\* the scenario in both input orders, with the track filter alone
StarlightInputs ==
    {[tracks |-> l, query |-> <<>>, artist |-> <<>>, track |-> StarlightText] :
        l \in UNION {{<<StarlightStudio, StarlightLive(p)>>,
                      <<StarlightLive(p), StarlightStudio>>} : p \in 0..MaxPopularity}}

RankInputs ==
    [tracks : RankLists, query : RankQueries,
     artist : RankArtists, track : RankTrackFilters]
    \cup StarlightInputs

-----------------------------------------------------------------------------
(* rankSearchResults applied to one input                                  *)

\* rankSearchResults is not called
RankIdle ==
    /\ rankIn = [tracks |-> <<>>, query |-> <<>>, artist |-> <<>>, track |-> <<>>]
    /\ rankOut = <<>>
    /\ rankSteps = <<>>

\* rankSearchResults(tracks, query, artist, track) is called and returns
CallRankSearchResults ==
    /\ Len(rankOut) < MaxRankCalls
    /\ rankOut' = Append(rankOut,
                         rankSearchResults(rankIn.tracks, rankIn.query,
                                           rankIn.artist, rankIn.track))
    /\ rankSteps' = [i \in 1..Len(rankIn.tracks) |->
                        scoreSteps(rankIn.tracks[i],
                                   trim(toLowerCase(rankIn.query)),
                                   trim(toLowerCase(rankIn.artist)),
                                   trim(toLowerCase(rankIn.track)))]
    /\ UNCHANGED <<rankIn, codecVars, xmlVars, soapVars, refreshVars, playVars>>

NextRank == CallRankSearchResults

-----------------------------------------------------------------------------
(* Requests                                                                *)

\* the requests the server may be handling at once
Reqs == {"R1", "R2"}

\* the settling delay of playSpotifyTrackWithRadio, in milliseconds
SettleDelayMs == 2000

\* how far the clock moves in one step, in milliseconds
TickMs == 1000

\* the volume /upnp/play and playSpotifyTrackOnSonos pass
RouteVolume == 30

\* another volume a direct caller may pass
OtherVolume == 55

\* the speaker's volume before any request
InitialVolume == 10

\* how many times the search endpoint may answer 401 to one request, plus one
MaxSearchCalls == 3

\* the result object of the orchestration functions; an absent field is None
Outcome(success, error, track, alternatives, query) ==
    [success |-> success, error |-> error, track |-> track,
     alternatives |-> alternatives, query |-> query]

\* { success: true } and { success: false, error: message }
Success == Outcome(TRUE, None, None, <<>>, None)
Failure(message) == Outcome(FALSE, Some(message), None, <<>>, None)

NoArgs == [spotifyUri |-> <<>>, trackInfo |-> [title |-> UndefinedValue], volume |-> None]

\* radioOption is options.radio as searchAndPlay was given it (None when the
\* property is absent), radio the value after the destructuring default
NoSearch ==
    [query |-> <<>>, artist |-> <<>>, track |-> <<>>, radio |-> TRUE,
     radioOption |-> None]

\* the frame of a request that has not been received
IdleFrame(status) ==
    [pc |-> status,         \* the await the request is suspended at
     fn |-> "none",         \* the function the request entered by
     args |-> NoArgs,       \* the arguments of its playback call
     sent |-> <<>>,         \* the SOAP actions it has issued, in order
     replies |-> <<>>,      \* the speaker's reply to each of them, in order
     result |-> None,       \* what its promise resolved to
     rejected |-> FALSE,    \* whether its promise rejected
     elapsed |-> 0,         \* milliseconds since its settling timer was set
     search |-> NoSearch,   \* the arguments of its searchAndPlay call
     ranked |-> <<>>,       \* searchResult.tracks
     searchCalls |-> 0,     \* GET /search requests it has sent
     refreshCalls |-> 0,    \* token refresh requests it has sent
     pauseCalls |-> 0,      \* PUT /me/player/pause requests it has sent
     pauseReplies |-> <<>>, \* what came back for each of them, in order
     found |-> <<>>,        \* what came back for each GET /search, in order
     route |-> "none",      \* the HTTP route the request came in by
     params |-> UndefinedValue, \* the route's radio parameter or favorite name
     responses |-> <<>>,    \* the HTTP responses sent for it, in order
     cloud |-> <<>>,        \* the Sonos Cloud calls it has issued, in order
     cloudReplies |-> <<>>, \* what came back for each of them, in order
     favoriteName |-> <<>>, \* the argument of its playFavoriteAfterDelay call
     busy |-> FALSE,        \* whether it holds the event loop while waiting
     volumes |-> <<>>,      \* the volume of each groupVolume call it has issued
     album |-> None,        \* what searchSpotifyAlbum returned: { album, tracks }
     seq |-> 0]             \* its place in the order of receipt, from 1

\* the request is received: it comes after those received before it
Receive(f) == [f EXCEPT !.seq = Cardinality({q \in Reqs : req[q].seq > 0}) + 1]

\* no other request holds the event loop: a request that waits by await has
\* given it up
EventLoopFree(r) == \A q \in Reqs \ {r} : ~req[q].busy

\* no request has been received
RequestsIdle ==
    /\ req = [r \in Reqs |-> IdleFrame(IF r = "R1" THEN "idle" ELSE "off")]
    /\ speaker = [volume |-> InitialVolume, uri |-> <<>>, state |-> "STOPPED",
                  arrived |-> <<>>]
    /\ spotifyTokenFile = "present"

\* the request sends a SOAP action and suspends at the await named by next
Issue(f, action, next) == [f EXCEPT !.sent = Append(@, action), !.pc = next]

\* "No matching tracks found"
NoMatchText ==
    <<"N", "o", " ", "m", "a", "t", "c", "h", "i", "n", "g", " ", "t", "r",
      "a", "c", "k", "s", " ", "f", "o", "u", "n", "d">>

\* the routes that await searchAndPlay
SearchRoutes == {"POST /search", "GET /search"}

\* res.status(status).json(body) or .send(text): the response is recorded
\* with the number of outbound calls of the request that had completed
Completed(f) ==
    Len(f.replies) + Len(f.found) + Len(f.pauseReplies) + Len(f.cloudReplies)
    + f.refreshCalls - (IF f.pc = "refreshSpotifyToken:post" THEN 1 ELSE 0)

Respond(f, status, body) ==
    [f EXCEPT !.responses =
        Append(@, [status |-> status, body |-> body, after |-> Completed(f)])]

\* the JSON bodies of the /search routes: { success, error }
JsonBody(success, error) == [success |-> success, error |-> error]

\* the body of res.send(text)
TextBody(text) == [text |-> text]

\* a variant of the /search routes that answers every failure with 500
searchRouteRespondNoNotFound(f, result) ==
    IF result.success
    THEN Respond(f, 200, JsonBody(TRUE, None))
    ELSE Respond(f, 500, JsonBody(FALSE, result.error))

\* the /search routes after await searchAndPlay (lines 891-904, 980-993)
searchRouteRespond(f, result) ==
    IF result.success
    THEN Respond(f, 200, JsonBody(TRUE, None))
    ELSE Respond(f, IF result.error = Some(NoMatchText) THEN 404 ELSE 500,
                 JsonBody(FALSE, result.error))

\* the catch block of the /search routes (lines 905-911, 994-1000)
searchRouteCatch(f, message) == Respond(f, 500, JsonBody(FALSE, Some(message)))

\* "Volume change request for '" and "' accepted."
VolumeRequestText ==
    <<"V", "o", "l", "u", "m", "e", " ", "c", "h", "a", "n", "g", "e", " ",
      "r", "e", "q", "u", "e", "s", "t", " ", "f", "o", "r", " ", "'">>

VolumeAcceptedText ==
    <<"'", " ", "a", "c", "c", "e", "p", "t", "e", "d", ".">>

\* POST /volume after await setVolume(volume) (line 860)
volumeRouteRespond(f) ==
    Respond(f, 202,
            TextBody(VolumeRequestText \o TemplateText(f.params.volume)
                     \o VolumeAcceptedText))

\* POST /upnp/play after await upnp.playSpotifyTrack (lines 1042-1052)
upnpPlayRouteRespond(f, result) ==
    IF result.success
    THEN Respond(f, 200, JsonBody(TRUE, None))
    ELSE Respond(f, 500, JsonBody(FALSE, result.error))

\* the catch block of POST /upnp/play (lines 1053-1058)
upnpPlayRouteCatch(f, message) == Respond(f, 500, JsonBody(FALSE, Some(message)))

\* the request's promise resolves with a value: a route that awaits it
\* sends its response
Resolve(f, value) ==
    LET settled == [f EXCEPT !.result = Some(value), !.pc = "done"]
    IN  CASE f.route \in SearchRoutes -> searchRouteRespond(settled, value)
          [] f.route = "POST /volume" -> volumeRouteRespond(settled)
          [] f.route = "POST /upnp/play" -> upnpPlayRouteRespond(settled, value)
          [] OTHER -> settled

\* the request's promise rejects: an exception left the entered function
Reject(f, message) ==
    LET settled == [f EXCEPT !.rejected = TRUE, !.pc = "done"]
    IN  CASE f.route \in SearchRoutes -> searchRouteCatch(settled, message)
          [] f.route = "POST /upnp/play" -> upnpPlayRouteCatch(settled, message)
          [] OTHER -> settled

\* the action the request is awaiting the reply of
Awaited(f) == f.sent[Len(f.sent)]

-----------------------------------------------------------------------------
(* Search-and-play orchestrator: the result of searchAndPlay               *)
(* (sonos_home_controller.js 528-598)                                      *)

Min(a, b) == IF a <= b THEN a ELSE b

\* query: { q: query, artist, track }
QueryEcho(s) == Some([q |-> s.query, artist |-> s.artist, track |-> s.track])

\* a variant of searchAndPlay without its catch block
searchAndPlayRethrow(f, message) == Reject(f, message)

\* the catch block of searchAndPlay (lines 590-597)
searchAndPlayCatch(f, message) ==
    Resolve(f, Outcome(FALSE, Some(message), None, <<>>, QueryEcho(f.search)))

\* a variant without the test for a missing best match: reading it throws,
\* and the catch block reports the TypeError
searchAndPlayNotFoundUntested(f) == searchAndPlayCatch(f, ReadingNameText)

\* the return for no best match (lines 538-544)
searchAndPlayNotFound(f) ==
    Resolve(f, Outcome(FALSE, Some(NoMatchText), None, <<>>, QueryEcho(f.search)))

\* a variant that keeps one runner-up more: slice(1, 6)
alternativesOfFive(tracks) == SubSeq(tracks, 2, Min(6, Len(tracks)))

\* searchResult.tracks.slice(1, 5)
alternativesOf(tracks) == SubSeq(tracks, 2, Min(5, Len(tracks)))

\* the return after playback (lines 572-589); mapping an alternative without
\* artists throws, which the catch block turns into a failure
searchAndPlayReturn(f, playResult) ==
    LET bestTrack == f.ranked[1]
        alternatives == alternativesOf(f.ranked)
    IN  IF \E i \in 1..Len(alternatives) : alternatives[i].artists = <<>>
        THEN searchAndPlayCatch(f, ReadingNameText)
        ELSE Resolve(f,
                 Outcome(playResult.success, playResult.error,
                         Some([name |-> bestTrack.name[1],
                               artist |-> bestTrack.artists[1],
                               uri |-> bestTrack.uri,
                               popularity |-> bestTrack.popularity,
                               relevanceScore |-> bestTrack.relevanceScore]),
                         [i \in 1..Len(alternatives) |->
                             [name |-> alternatives[i].name[1],
                              artist |-> alternatives[i].artists[1],
                              uri |-> alternatives[i].uri]],
                         None))

\* a playback function returns: to searchAndPlay when it is the caller
\* (playSpotifyTrackOnSonos, lines 511-517, passes the result on unchanged),
\* and else to the outside caller
Return(f, playResult) ==
    IF f.fn = "searchAndPlay"
    THEN searchAndPlayReturn(f, playResult)
    ELSE Resolve(f, playResult)

-----------------------------------------------------------------------------
(* Track playback orchestrator: upnp.js playSpotifyTrack                   *)

\* "Playback failed"
PlaybackFailedText ==
    <<"P", "l", "a", "y", "b", "a", "c", "k", " ", "f", "a", "i", "l", "e", "d">>

\* a variant of the catch block that reports a fixed message
playSpotifyTrackCatchFixedMessage(f, message) == Return(f, Failure(PlaybackFailedText))

\* the catch block: return { success: false, error: err.message }
playSpotifyTrackCatch(f, message) == Return(f, Failure(message))

\* await setAVTransportURI(spotifyUri, trackInfo)
playSpotifyTrackLoad(f) ==
    LET request == setAVTransportURI(f.args.spotifyUri, f.args.trackInfo) IN
    IF request.ok
    THEN Issue(f, request.value, "playSpotifyTrack:setAVTransportURI")
    ELSE playSpotifyTrackCatch(f, request.error)

\* the body up to the first await that sends
playSpotifyTrack(f) ==
    IF f.args.volume # None
    THEN Issue(f, setVolume(f.args.volume[1]), "playSpotifyTrack:setVolume")
    ELSE playSpotifyTrackLoad(f)

\* a variant that goes on to load the track whatever SetVolume answered
playSpotifyTrackAfterSetVolumeUnchecked(f, settled) == playSpotifyTrackLoad(f)

\* after await setVolume(volume)
playSpotifyTrackAfterSetVolume(f, settled) ==
    IF settled.ok
    THEN playSpotifyTrackLoad(f)
    ELSE playSpotifyTrackCatch(f, settled.error)

\* after await setAVTransportURI(...)
playSpotifyTrackAfterLoad(f, settled) ==
    IF settled.ok
    THEN Issue(f, play, "playSpotifyTrack:play")
    ELSE playSpotifyTrackCatch(f, settled.error)

\* a variant that sends Stop to the speaker when Play was refused
playSpotifyTrackAfterPlayStopping(f, settled) ==
    IF settled.ok
    THEN Return(f, Success)
    ELSE playSpotifyTrackCatch(
             [f EXCEPT !.sent = Append(@, SoapAction("Stop", None, <<>>, NoMeta))],
             settled.error)

\* after await play()
playSpotifyTrackAfterPlay(f, settled) ==
    IF settled.ok
    THEN Return(f, Success)
    ELSE playSpotifyTrackCatch(f, settled.error)

-----------------------------------------------------------------------------
(* Track playback orchestrator: upnp.js playSpotifyTrackWithRadio          *)

playSpotifyTrackWithRadioCatch(f, message) == Return(f, Failure(message))

playSpotifyTrackWithRadioLoad(f) ==
    LET request == setAVTransportURI(f.args.spotifyUri, f.args.trackInfo) IN
    IF request.ok
    THEN Issue(f, request.value, "playSpotifyTrackWithRadio:setAVTransportURI")
    ELSE playSpotifyTrackWithRadioCatch(f, request.error)

playSpotifyTrackWithRadio(f) ==
    IF f.args.volume # None
    THEN Issue(f, setVolume(f.args.volume[1]), "playSpotifyTrackWithRadio:setVolume")
    ELSE playSpotifyTrackWithRadioLoad(f)

playSpotifyTrackWithRadioAfterSetVolume(f, settled) ==
    IF settled.ok
    THEN playSpotifyTrackWithRadioLoad(f)
    ELSE playSpotifyTrackWithRadioCatch(f, settled.error)

playSpotifyTrackWithRadioAfterLoad(f, settled) ==
    IF settled.ok
    THEN Issue(f, play, "playSpotifyTrackWithRadio:play")
    ELSE playSpotifyTrackWithRadioCatch(f, settled.error)

\* a variant that waits out the delay in a loop, never giving up the event
\* loop
playSpotifyTrackWithRadioAfterPlayBusyWait(f, settled) ==
    IF settled.ok
    THEN [f EXCEPT !.pc = "playSpotifyTrackWithRadio:setTimeout", !.elapsed = 0,
                   !.busy = TRUE]
    ELSE playSpotifyTrackWithRadioCatch(f, settled.error)

\* after the first await play(): await new Promise(... setTimeout(resolve, 2000))
playSpotifyTrackWithRadioAfterPlay(f, settled) ==
    IF settled.ok
    THEN [f EXCEPT !.pc = "playSpotifyTrackWithRadio:setTimeout", !.elapsed = 0]
    ELSE playSpotifyTrackWithRadioCatch(f, settled.error)

\* a variant with no delay: setTimeout(resolve, 0)
timerDueAtOnce(ms) == ms >= 0

\* whether the timer of setTimeout(resolve, 2000) may fire, ms after it was set
timerDue(ms) == ms >= SettleDelayMs

\* a variant that loads the track again in place of its radio
playSpotifyTrackWithRadioAfterDelayTrackAgain(f) ==
    LET request == setAVTransportURI(f.args.spotifyUri, f.args.trackInfo) IN
    IF request.ok
    THEN Issue(f, request.value, "playSpotifyTrackWithRadio:radioURI")
    ELSE playSpotifyTrackWithRadioCatch(f, request.error)

\* after the delay: the radio URI is computed and sent
playSpotifyTrackWithRadioAfterDelay(f) ==
    LET request == radioTransportURI(f.args.spotifyUri, f.args.trackInfo) IN
    IF request.ok
    THEN Issue(f, request.value, "playSpotifyTrackWithRadio:radioURI")
    ELSE playSpotifyTrackWithRadioCatch(f, request.error)

\* a variant that plays again whatever the radio SetAVTransportURI answered
playSpotifyTrackWithRadioAfterRadioURIUnchecked(f, settled) ==
    Issue(f, play, "playSpotifyTrackWithRadio:radioPlay")

\* after await soapRequest(... 'SetAVTransportURI' ...) with the radio URI
playSpotifyTrackWithRadioAfterRadioURI(f, settled) ==
    IF settled.ok
    THEN Issue(f, play, "playSpotifyTrackWithRadio:radioPlay")
    ELSE playSpotifyTrackWithRadioCatch(f, settled.error)

\* after the second await play()
playSpotifyTrackWithRadioAfterRadioPlay(f, settled) ==
    IF settled.ok
    THEN Return(f, Success)
    ELSE playSpotifyTrackWithRadioCatch(f, settled.error)

-----------------------------------------------------------------------------
(* Spotify search: sonos_home_controller.js searchSpotify,                 *)
(* refreshSpotifyToken, pauseSpotify, playSpotifyTrackOnSonos, searchAndPlay *)

\* "Request failed with status code "
RequestFailedText ==
    <<"R", "e", "q", "u", "e", "s", "t", " ", "f", "a", "i", "l", "e", "d",
      " ", "w", "i", "t", "h", " ", "s", "t", "a", "t", "u", "s", " ", "c",
      "o", "d", "e", " ">>

\* "Network Error"
NetworkErrorText ==
    <<"N", "e", "t", "w", "o", "r", "k", " ", "E", "r", "r", "o", "r">>

\* "Cannot read properties of undefined (reading 'items')"
ReadingItemsText ==
    <<"C", "a", "n", "n", "o", "t", " ", "r", "e", "a", "d", " ", "p", "r",
      "o", "p", "e", "r", "t", "i", "e", "s", " ", "o", "f", " ", "u", "n",
      "d", "e", "f", "i", "n", "e", "d", " ", "(", "r", "e", "a", "d", "i",
      "n", "g", " ", "'", "i", "t", "e", "m", "s", "'", ")">>

\* "ENOENT: no such file or directory, unlink"
NoEntText ==
    <<"E", "N", "O", "E", "N", "T", ":", " ", "n", "o", " ", "s", "u", "c",
      "h", " ", "f", "i", "l", "e", " ", "o", "r", " ", "d", "i", "r", "e",
      "c", "t", "o", "r", "y", ",", " ", "u", "n", "l", "i", "n", "k">>

\* "artist:", " track:", "track:"
ArtistFieldText == <<"a", "r", "t", "i", "s", "t", ":">>
TrackFieldText == <<"t", "r", "a", "c", "k", ":">>

\* what an axios call comes back with: a 2xx response carrying track items,
\* a 2xx response without the expected body, a response with another status
\* (axios throws, err.response.status set), or no response (axios throws)
ApiItems(items) == [kind |-> "ok", status |-> 200, items |-> items]
ApiMalformed == [kind |-> "malformed", status |-> 200, items |-> <<>>]
ApiStatus(status) == [kind |-> "http", status |-> status, items |-> <<>>]
ApiNetworkError == [kind |-> "net", status |-> 0, items |-> <<>>]

\* err.message of the Error axios throws for a reply
apiErrorMessage(reply) ==
    IF reply.kind = "net" THEN NetworkErrorText
    ELSE RequestFailedText \o DecimalText(reply.status)

\* the q parameter searchSpotify builds (lines 424-431)
searchQueryOf(query, artist, track) ==
    IF artist # <<>> /\ track # <<>>
    THEN ArtistFieldText \o artist \o <<" ">> \o TrackFieldText \o track
    ELSE IF artist # <<>> THEN ArtistFieldText \o artist
    ELSE IF track # <<>> THEN TrackFieldText \o track
    ELSE query

\* searchSpotify up to its await of spotifyApi.get (lines 420-448), as
\* searchAndPlay calls it: without a query nothing is sent and searchAndPlay
\* returns its not-found result
searchSpotify(f) ==
    IF trim(searchQueryOf(f.search.query, f.search.artist, f.search.track)) = <<>>
    THEN searchAndPlayNotFound(f)
    ELSE [f EXCEPT !.searchCalls = @ + 1, !.pc = "searchSpotify:get"]

\* searchAndPlay(query, options) up to its await of searchSpotify (lines
\* 528-536): const { artist, track, radio = true } = options
searchAndPlay(f, s) ==
    searchSpotify(
        [f EXCEPT !.fn = "searchAndPlay",
                  !.search = [query |-> s.query, artist |-> s.artist,
                              track |-> s.track,
                              radio |-> IF s.radioOption = None THEN TRUE
                                        ELSE s.radioOption[1],
                              radioOption |-> s.radioOption]])

\* the error texts of the 400 answers of POST /search and GET /search
MissingParamsText ==
    <<"M", "i", "s", "s", "i", "n", "g", " ", "s", "e", "a", "r", "c", "h",
      " ", "p", "a", "r", "a", "m", "s", ".", " ", "P", "r", "o", "v", "i",
      "d", "e", " ", "?", "q", "=", "q", "u", "e", "r", "y", " ", "o", "r",
      " ", "?", "a", "r", "t", "i", "s", "t", "=", "X", "&", "t", "r", "a",
      "c", "k", "=", "Y", " ", "o", "r", " ", "J", "S", "O", "N", " ", "b",
      "o", "d", "y", ".">>

MissingParametersText ==
    <<"M", "i", "s", "s", "i", "n", "g", " ", "s", "e", "a", "r", "c", "h",
      " ", "p", "a", "r", "a", "m", "e", "t", "e", "r", "s">>

\* 'false'
FalseText == <<"f", "a", "l", "s", "e">>

\* a variant of the radio parameter that takes every falsy value and 'false'
\* for false
postSearchRadioFalsy(radioParam) ==
    ~(\/ radioParam = StringValue(FalseText)
      \/ radioParam = BooleanValue(FALSE)
      \/ radioParam = NumberValue(0)
      \/ radioParam = StringValue(<<>>))

\* radioParam === 'false' || radioParam === false ? false : true (line 875)
postSearchRadio(radioParam) ==
    ~(radioParam = StringValue(FalseText) \/ radioParam = BooleanValue(FALSE))

\* the handler of POST /search up to its await of searchAndPlay (lines
\* 867-891); p holds q, artist and track after their '' defaults, and the
\* radio parameter as the query string or the JSON body carried it
postSearch(f, p) ==
    LET received == [f EXCEPT !.route = "POST /search", !.params = p] IN
    IF p.q = <<>> /\ p.artist = <<>> /\ p.track = <<>>
    THEN [Respond(received, 400, JsonBody(FALSE, Some(MissingParamsText)))
             EXCEPT !.pc = "done"]
    ELSE searchAndPlay(received,
                       [query |-> p.q, artist |-> p.artist, track |-> p.track,
                        radioOption |-> Some(postSearchRadio(p.radio))])

\* the handler of GET /search up to its await of searchAndPlay (lines
\* 959-980): it passes no radio option
getSearch(f, p) ==
    LET received == [f EXCEPT !.route = "GET /search", !.params = p] IN
    IF p.q = <<>> /\ p.artist = <<>> /\ p.track = <<>>
    THEN [Respond(received, 400, JsonBody(FALSE, Some(MissingParametersText)))
             EXCEPT !.pc = "done"]
    ELSE searchAndPlay(received,
                       [query |-> p.q, artist |-> p.artist, track |-> p.track,
                        radioOption |-> None])

\* playSpotifyTrackOnSonos up to its await of pauseSpotify (lines 492-496),
\* with the arguments it will pass to upnp.playSpotifyTrack (lines 500-509)
playSpotifyTrackOnSonos(f, trackUri, name) ==
    [f EXCEPT !.args = [spotifyUri |-> trackUri,
                        trackInfo |-> [title |->
                            StringValue(IF name # <<>> THEN name ELSE UnknownTrackText)],
                        volume |-> Some(RouteVolume)],
              !.pauseCalls = @ + 1,
              !.pc = "pauseSpotify:put"]

\* pauseSpotify catches whatever the PUT produced (lines 193-209);
\* playSpotifyTrackOnSonos goes on to upnp.playSpotifyTrack
playSpotifyTrackOnSonosAfterPause(f, reply) == playSpotifyTrack(f)

\* searchAndPlay once the ranked tracks are there (lines 546-570)
searchAndPlayAfterSearch(f, rankedTracks) ==
    LET found == [f EXCEPT !.ranked = rankedTracks]
        bestTrack == rankedTracks[1]
    IN  IF bestTrack.artists = <<>>
        THEN searchAndPlayCatch(found, ReadingNameText)
        ELSE IF f.search.radio
             THEN playSpotifyTrackWithRadio(
                      [found EXCEPT !.args =
                          [spotifyUri |-> bestTrack.uri,
                           trackInfo |-> [title |-> StringValue(bestTrack.name[1])],
                           volume |-> None]])
             ELSE playSpotifyTrackOnSonos(found, bestTrack.uri, bestTrack.name[1])

\* refreshSpotifyToken up to its await of axios.post (lines 150-173), as the
\* 401 handler of searchSpotify calls it: without a token file it returns
\* false and searchSpotify rethrows the 401 error
refreshSpotifyToken(f, reply, tokenFile) ==
    IF tokenFile = "absent"
    THEN searchAndPlayCatch(f, apiErrorMessage(reply))
    ELSE [f EXCEPT !.refreshCalls = @ + 1, !.pc = "refreshSpotifyToken:post"]

\* searchSpotify after await spotifyApi.get (lines 450-480)
searchSpotifyAfterGet(f, reply, tokenFile) ==
    CASE reply.kind = "ok" ->
            IF reply.items = <<>>
            THEN searchAndPlayNotFound(f)
            ELSE LET ranked == rankSearchResults(reply.items, f.search.query,
                                                 f.search.artist, f.search.track)
                 IN  IF ranked.ok
                     THEN searchAndPlayAfterSearch(f, ranked.value)
                     ELSE searchAndPlayCatch(f, ranked.error)
      [] reply.kind = "malformed" -> searchAndPlayCatch(f, ReadingItemsText)
      [] reply.kind = "http" /\ reply.status = 401 ->
            refreshSpotifyToken(f, reply, tokenFile)
      [] OTHER -> searchAndPlayCatch(f, apiErrorMessage(reply))

\* the statuses for which refreshSpotifyToken deletes the token file
RefreshRefused(reply) == reply.kind = "http" /\ reply.status \in {400, 401}

\* refreshSpotifyToken after await axios.post (lines 175-190) and the 401
\* handler of searchSpotify after it (lines 472-479): a refreshed token
\* calls searchSpotify again; unlinkSync throws when the file is gone
refreshSpotifyTokenAfterPost(f, reply, tokenFile) ==
    IF reply.kind = "ok"
    THEN searchSpotify(f)
    ELSE IF RefreshRefused(reply) /\ tokenFile = "absent"
         THEN searchAndPlayCatch(f, NoEntText)
         ELSE searchAndPlayCatch(f, apiErrorMessage(ApiStatus(401)))

\* the token file after refreshSpotifyToken settled
tokenFileAfterRefresh(reply, tokenFile) ==
    IF reply.kind = "ok" THEN "present"
    ELSE IF RefreshRefused(reply) THEN "absent"
    ELSE tokenFile

-----------------------------------------------------------------------------
(* Favorite playback and line-in: sonos_home_controller.js                 *)
(* playFavoriteAfterDelay, switchToLineIn, getSonosGroup and the routes    *)
(* POST /play/:favoriteName and POST /line-in                              *)

\* DELAY_MS, the configured arrival delay in milliseconds
DELAY_MS == 3000

\* the Sonos Cloud calls of getSonosGroup (refreshSonosToken included), of
\* playFavoriteAfterDelay and of switchToLineIn, in the order of their awaits
GetSonosGroupCalls ==
    <<"POST /login/v3/oauth/access", "GET /households", "GET /households/:id/groups">>

PlayFavoriteCalls ==
    GetSonosGroupCalls
    \o <<"POST /groups/:id/groupVolume", "GET /households/:id/favorites",
         "POST /groups/:id/favorites">>

SwitchToLineInCalls ==
    GetSonosGroupCalls
    \o <<"POST /groups/:id/playback/pause", "POST /groups/:id/playback/lineIn",
         "POST /groups/:id/playback/play">>

SetVolumeCalls == GetSonosGroupCalls \o <<"POST /groups/:id/groupVolume">>

SonosCloudCalls(f) ==
    CASE f.fn = "switchToLineIn" -> SwitchToLineInCalls
      [] f.fn = "setVolume" -> SetVolumeCalls
      [] OTHER -> PlayFavoriteCalls

\* what a Sonos Cloud call comes back with: a response that holds what the
\* caller looks for, a response that does not (no household, no group or
\* favorite of the wanted name), or an error (axios throws)
CloudReplies == {"ok", "missing", "failed"}

\* how the function goes on after a call: to its next call, to a return, or
\* to its catch block.  refreshSonosToken catches its own error and returns
\* false, which makes getSonosGroup return null and the caller return; the
\* bodies of the POST calls are not read
cloudOutcome(call, reply) ==
    CASE call = "POST /login/v3/oauth/access" ->
            IF reply = "failed" THEN "return" ELSE "next"
      [] call \in {"GET /households", "GET /households/:id/groups",
                   "GET /households/:id/favorites"} ->
            IF reply = "ok" THEN "next"
            ELSE IF reply = "missing" THEN "return" ELSE "throw"
      [] OTHER -> IF reply = "failed" THEN "throw" ELSE "next"

\* a variant of the catch blocks that throws the error on
sonosPlaybackRethrow(f, message) == Reject(f, message)

\* the catch blocks of playFavoriteAfterDelay (lines 663-669) and of
\* switchToLineIn (lines 695-701): the error is logged
sonosPlaybackCatch(f, message) == Resolve(f, UndefinedValue)

\* the volume of a groupVolume call: { volume } in setVolume (line 259),
\* { volume: 30 } in playFavoriteAfterDelay (line 624)
groupVolumeOf(f) ==
    IF f.fn = "setVolume" THEN f.params.volume ELSE NumberValue(30)

\* await sonosApi.get / sonosApi.post / axios.post
sonosApi(f, call) ==
    [f EXCEPT !.cloud = Append(@, call),
              !.volumes = IF call = "POST /groups/:id/groupVolume"
                          THEN Append(@, groupVolumeOf(f))
                          ELSE @,
              !.pc = "sonosApi"]

\* getSonosGroup up to the await of refreshSonosToken (lines 107-118,
\* 211-213): without stored tokens nothing is sent and the caller returns
getSonosGroup(f, tokens) ==
    IF tokens = "absent"
    THEN Resolve(f, UndefinedValue)
    ELSE sonosApi(f, GetSonosGroupCalls[1])

\* after an awaited Sonos Cloud call
sonosApiAfter(f, reply) ==
    LET calls == SonosCloudCalls(f)
        outcome == cloudOutcome(f.cloud[Len(f.cloud)], reply)
    IN  CASE outcome = "throw" ->
                sonosPlaybackCatch(f, apiErrorMessage(ApiStatus(500)))
          [] outcome = "return" \/ Len(f.cloud) = Len(calls) ->
                Resolve(f, UndefinedValue)
          [] OTHER -> sonosApi(f, calls[Len(f.cloud) + 1])

\* what the speaker does for an accepted Sonos Cloud command (which source
\* it loads is not tracked)
CloudSpeakerAfter(s, call, volume) ==
    CASE call = "POST /groups/:id/groupVolume" -> [s EXCEPT !.volume = volume.number]
      [] call = "POST /groups/:id/playback/pause" -> [s EXCEPT !.state = "PAUSED"]
      [] call \in {"POST /groups/:id/favorites", "POST /groups/:id/playback/play"} ->
            [s EXCEPT !.state = "PLAYING"]
      [] OTHER -> s

\* await pauseSpotify()
pauseSpotify(f) == [f EXCEPT !.pauseCalls = @ + 1, !.pc = "pauseSpotify:put"]

\* playFavoriteAfterDelay(favoriteName) up to its first await (lines 600-610)
playFavoriteAfterDelay(f, favoriteName) ==
    LET entered == [f EXCEPT !.fn = "playFavoriteAfterDelay",
                             !.favoriteName = favoriteName]
    IN  IF favoriteName = <<>>
        THEN Resolve(entered, UndefinedValue)
        ELSE pauseSpotify(entered)

\* after await pauseSpotify(): await new Promise(... setTimeout(resolve, DELAY_MS))
playFavoriteAfterDelayAfterPause(f) ==
    [f EXCEPT !.pc = "playFavoriteAfterDelay:setTimeout", !.elapsed = 0]

\* a variant with no arrival delay: setTimeout(resolve, 0)
arrivalTimerDueAtOnce(ms) == ms >= 0

\* whether the timer of setTimeout(resolve, DELAY_MS) may fire, ms after it
\* was set
arrivalTimerDue(ms) == ms >= DELAY_MS

\* switchToLineIn() up to its first await (lines 672-675)
switchToLineIn(f) == pauseSpotify([f EXCEPT !.fn = "switchToLineIn"])

\* a variant of pauseSpotify that tolerates only 'no active device' (404)
\* and throws every other error on to its caller
pauseSpotifyAfterPutRethrow(f, reply, tokens) ==
    IF reply.kind = "ok" \/ reply = ApiStatus(404)
    THEN CASE f.fn = "playFavoriteAfterDelay" -> playFavoriteAfterDelayAfterPause(f)
           [] f.fn = "switchToLineIn" -> getSonosGroup(f, tokens)
           [] OTHER -> playSpotifyTrackOnSonosAfterPause(f, reply)
    ELSE Reject(f, apiErrorMessage(reply))

\* pauseSpotify has caught whatever the PUT produced, and its caller goes on
pauseSpotifyAfterPut(f, reply, tokens) ==
    CASE f.fn = "playFavoriteAfterDelay" -> playFavoriteAfterDelayAfterPause(f)
      [] f.fn = "switchToLineIn" -> getSonosGroup(f, tokens)
      [] OTHER -> playSpotifyTrackOnSonosAfterPause(f, reply)

\* favoriteName.replace(/%20/g, ' ')
RECURSIVE replacePercent20(_)
replacePercent20(s) ==
    IF s = <<>> THEN <<>>
    ELSE IF OccursAt(s, <<"%", "2", "0">>, 1)
         THEN <<" ">> \o replacePercent20(SubSeq(s, 4, Len(s)))
         ELSE <<Head(s)>> \o replacePercent20(Tail(s))

\* the texts of the 202 answers
WebhookForText ==
    <<"W", "e", "b", "h", "o", "o", "k", " ", "f", "o", "r", " ", "'">>

AcceptedPlaybackText ==
    <<"'", " ", "a", "c", "c", "e", "p", "t", "e", "d", ".", " ", "P", "r",
      "o", "c", "e", "s", "s", "i", "n", "g", " ", "p", "l", "a", "y", "b",
      "a", "c", "k", " ", "r", "e", "q", "u", "e", "s", "t", ".">>

LineInAcceptedText ==
    <<"W", "e", "b", "h", "o", "o", "k", " ", "f", "o", "r", " ", "l", "i",
      "n", "e", "-", "i", "n", " ", "a", "c", "c", "e", "p", "t", "e", "d",
      ".", " ", "P", "r", "o", "c", "e", "s", "s", "i", "n", "g", " ", "s",
      "w", "i", "t", "c", "h", " ", "r", "e", "q", "u", "e", "s", "t", ".">>

\* the handler of POST /play/:favoriteName (lines 835-843): the playback
\* function is called and not awaited, and the response is sent
postPlayFavorite(f, favoriteName) ==
    LET cleanedName == replaceAll(replacePercent20(favoriteName), "_", <<" ">>)
        received == [f EXCEPT !.route = "POST /play/:favoriteName",
                              !.params = [favoriteName |-> favoriteName]]
    IN  Respond(playFavoriteAfterDelay(received, cleanedName), 202,
                TextBody(WebhookForText \o cleanedName \o AcceptedPlaybackText))

\* the handler of POST /line-in (lines 845-849)
postLineIn(f) ==
    Respond(switchToLineIn([f EXCEPT !.route = "POST /line-in"]), 202,
            TextBody(LineInAcceptedText))

\* 'Invalid "volume" in request body. It must be a number between 0 and 100.'
InvalidVolumeText ==
    <<"I", "n", "v", "a", "l", "i", "d", " ", "\"", "v", "o", "l", "u", "m",
      "e", "\"", " ", "i", "n", " ", "r", "e", "q", "u", "e", "s", "t", " ",
      "b", "o", "d", "y", ".", " ", "I", "t", " ", "m", "u", "s", "t", " ",
      "b", "e", " ", "a", " ", "n", "u", "m", "b", "e", "r", " ", "b", "e",
      "t", "w", "e", "e", "n", " ", "0", " ", "a", "n", "d", " ", "1", "0",
      "0", ".">>

\* a variant of the check of POST /volume with no upper limit
volumeRefusedNoUpperLimit(volume) ==
    volume.type = "undefined" \/ volume.type # "number" \/ volume.number < 0

\* volume === undefined || typeof volume !== 'number' || volume < 0
\* || volume > 100 (line 853)
volumeRefused(volume) ==
    \/ volume.type = "undefined"
    \/ volume.type # "number"
    \/ volume.number < 0
    \/ volume.number > 100

\* the handler of POST /volume up to its await of setVolume(volume), and
\* setVolume up to its await of getSonosGroup (lines 250-253, 851-859)
postVolume(f, volume, tokens) ==
    LET received == [f EXCEPT !.route = "POST /volume",
                              !.params = [volume |-> volume]]
    IN  IF volumeRefused(volume)
        THEN [Respond(received, 400, TextBody(InvalidVolumeText))
                 EXCEPT !.pc = "done"]
        ELSE getSonosGroup([received EXCEPT !.fn = "setVolume"], tokens)

\* 'Missing or invalid "uri" in request body. Must be spotify:track:XXXXX
\* format.'
InvalidUriBodyText ==
    <<"M", "i", "s", "s", "i", "n", "g", " ", "o", "r", " ", "i", "n", "v",
      "a", "l", "i", "d", " ", "\"", "u", "r", "i", "\"", " ", "i", "n",
      " ", "r", "e", "q", "u", "e", "s", "t", " ", "b", "o", "d", "y", ".",
      " ", "M", "u", "s", "t", " ", "b", "e", " ", "s", "p", "o", "t", "i",
      "f", "y", ":", "t", "r", "a", "c", "k", ":", "X", "X", "X", "X", "X",
      " ", "f", "o", "r", "m", "a", "t", ".">>

\* !uri for the values the body may carry
falsy(v) ==
    \/ v.type = "undefined"
    \/ v.type = "string" /\ v.text = <<>>
    \/ v.type = "number" /\ v.number = 0
    \/ v.type = "boolean" /\ v.number = 0

\* the handler of POST /upnp/play up to its await of upnp.playSpotifyTrack
\* (lines 1027-1042): a uri that is not a string has no startsWith, and the
\* TypeError leaves the handler before its try block
postUpnpPlay(f, uri) ==
    LET received == [f EXCEPT !.route = "POST /upnp/play",
                              !.params = [uri |-> uri]]
    IN  CASE falsy(uri) ->
                [Respond(received, 400, JsonBody(FALSE, Some(InvalidUriBodyText)))
                    EXCEPT !.pc = "done"]
          [] uri.type # "string" ->
                [received EXCEPT !.rejected = TRUE, !.pc = "done"]
          [] ~OccursAt(uri.text, SpotifyTrackPrefix, 1) ->
                [Respond(received, 400, JsonBody(FALSE, Some(InvalidUriBodyText)))
                    EXCEPT !.pc = "done"]
          [] OTHER ->
                playSpotifyTrack(
                    [received EXCEPT !.fn = "playSpotifyTrack",
                                     !.args = [spotifyUri |-> uri.text,
                                               trackInfo |-> [title |-> UndefinedValue],
                                               volume |-> Some(RouteVolume)]])

-----------------------------------------------------------------------------
(* Album playback: sonos_home_controller.js searchSpotifyAlbum and the     *)
(* route POST /album                                                       *)

\* 'Missing search params. Provide ?q=album+name or
\* ?q=album+name&artist=Artist'
MissingAlbumParamsText ==
    <<"M", "i", "s", "s", "i", "n", "g", " ", "s", "e", "a", "r", "c", "h",
      " ", "p", "a", "r", "a", "m", "s", ".", " ", "P", "r", "o", "v", "i",
      "d", "e", " ", "?", "q", "=", "a", "l", "b", "u", "m", "+", "n", "a",
      "m", "e", " ", "o", "r", " ", "?", "q", "=", "a", "l", "b", "u", "m",
      "+", "n", "a", "m", "e", "&", "a", "r", "t", "i", "s", "t", "=", "A",
      "r", "t", "i", "s", "t">>

\* 'Album not found on Spotify'
AlbumNotFoundText ==
    <<"A", "l", "b", "u", "m", " ", "n", "o", "t", " ", "f", "o", "u", "n",
      "d", " ", "o", "n", " ", "S", "p", "o", "t", "i", "f", "y">>

\* "upnp.playAlbum is not a function"
PlayAlbumNotAFunctionText ==
    <<"u", "p", "n", "p", ".", "p", "l", "a", "y", "A", "l", "b", "u", "m",
      " ", "i", "s", " ", "n", "o", "t", " ", "a", " ", "f", "u", "n", "c",
      "t", "i", "o", "n">>

\* the names module.exports of upnp.js holds (lines 373-397)
UpnpExports ==
    {"soapRequest", "setAVTransportURI", "play", "stop", "pause", "setVolume",
     "getTransportInfo", "playSpotifyTrack", "playSpotifyTrackWithRadio",
     "testConnection", "spotifyToSonosUri", "spotifyToSonosRadioUri",
     "buildSpotifyMetadata", "escapeXml", "SONOS_SPEAKER_IP", "SONOS_SPEAKER_PORT"}

\* an album of a search response
Album(id, name, artists) == [id |-> id, name |-> name, artists |-> artists]

\* the catch block of POST /album (lines 952-955)
albumRouteCatch(f, message) ==
    [Respond(f, 500, JsonBody(FALSE, Some(message))) EXCEPT !.pc = "done"]

\* searchSpotifyAlbum up to its await of GET /search (lines 358-370)
searchSpotifyAlbum(f) ==
    [f EXCEPT !.searchCalls = @ + 1, !.pc = "searchSpotifyAlbum:search"]

\* the handler of POST /album up to its await of searchSpotifyAlbum (lines
\* 919-933)
postAlbum(f, p) ==
    LET received == [f EXCEPT !.route = "POST /album", !.params = p,
                              !.fn = "searchSpotifyAlbum"]
    IN  IF p.q = <<>> /\ p.artist = <<>>
        THEN [Respond(received, 400, JsonBody(FALSE, Some(MissingAlbumParamsText)))
                 EXCEPT !.pc = "done"]
        ELSE searchSpotifyAlbum(received)

\* the album searchSpotifyAlbum picks (lines 378-386): the first whose
\* artists hold the wanted one, or else the first
bestAlbumOf(albums, artist) ==
    LET artistLower == toLowerCase(artist)
        exact == {i \in 1..Len(albums) :
                     \E k \in 1..Len(albums[i].artists) :
                         Includes(toLowerCase(albums[i].artists[k]), artistLower)}
    IN  IF artist # <<>> /\ exact # {}
        THEN albums[CHOOSE i \in exact : \A j \in exact : i <= j]
        ELSE albums[1]

\* the catch block of searchSpotifyAlbum up to its await of
\* refreshSpotifyToken (lines 404-412): any error but a 401 is thrown on to
\* the route, and so is the 401 when there are no tokens to refresh
searchSpotifyAlbumCatch(f, reply, tokenFile) ==
    IF reply.kind = "http" /\ reply.status = 401 /\ tokenFile # "absent"
    THEN [f EXCEPT !.refreshCalls = @ + 1, !.pc = "searchSpotifyAlbum:refresh"]
    ELSE albumRouteCatch(f, IF reply.kind = "malformed" THEN ReadingItemsText
                            ELSE apiErrorMessage(reply))

\* upnp.playAlbum(tracks, album) (line 940): upnp.js exports no playAlbum,
\* and calling the undefined member throws a TypeError inside the try block
postAlbumAfterSearch(f) ==
    IF "playAlbum" \in UpnpExports
    THEN [f EXCEPT !.pc = "upnp.playAlbum"]
    ELSE albumRouteCatch(f, PlayAlbumNotAFunctionText)

\* searchSpotifyAlbum after await GET /search (lines 372-393), and the
\* route's answer when it returns null (lines 935-937)
searchSpotifyAlbumAfterSearch(f, reply, tokenFile) ==
    IF reply.kind = "ok"
    THEN IF reply.items = <<>>
         THEN [Respond(f, 404, JsonBody(FALSE, Some(AlbumNotFoundText)))
                  EXCEPT !.pc = "done"]
         ELSE [f EXCEPT !.pc = "searchSpotifyAlbum:tracks"]
    ELSE searchSpotifyAlbumCatch(f, reply, tokenFile)

\* searchSpotifyAlbum after await GET /albums/:id/tracks (lines 391-403):
\* it returns the album and its tracks, and the route goes on to play them
searchSpotifyAlbumAfterTracks(f, albums, reply, tokenFile) ==
    IF reply.kind = "ok"
    THEN postAlbumAfterSearch(
             [f EXCEPT !.album = Some([album |-> bestAlbumOf(albums, f.params.artist),
                                       tracks |-> reply.items])])
    ELSE searchSpotifyAlbumCatch(f, reply, tokenFile)

\* the catch block of searchSpotifyAlbum after await refreshSpotifyToken
\* (lines 407-412): with a new token the search is made again; otherwise the
\* 401 is thrown on, or the ENOENT of the refresh
searchSpotifyAlbumAfterRefresh(f, reply, tokenFile) ==
    IF reply.kind = "ok"
    THEN searchSpotifyAlbum(f)
    ELSE IF RefreshRefused(reply) /\ tokenFile = "absent"
         THEN albumRouteCatch(f, NoEntText)
         ELSE albumRouteCatch(f, apiErrorMessage(ApiStatus(401)))

-----------------------------------------------------------------------------
(* The inputs of a request                                                 *)

\* track references callers pass: an exact one, one the pattern finds inside
\* a longer string, and one it does not find
ExactUri == SpotifyTrackPrefix \o <<"a", "7">>
PaddedUri == <<"x">> \o SpotifyTrackPrefix \o <<"a", "7">> \o <<"-", "Z">>
AlbumUri == <<"s", "p", "o", "t", "i", "f", "y", ":", "a", "l", "b", "u", "m", ":", "7">>

CallUris == {ExactUri, PaddedUri, AlbumUri}

\* titles callers pass: none, a text, a value that is not a string
CallTitles == {UndefinedValue, StringValue(<<"T", "&", "J">>), NumberValue(7)}

CallVolumes == {None, Some(RouteVolume), Some(OtherVolume)}

CallArgs ==
    {[spotifyUri |-> u, trackInfo |-> [title |-> t], volume |-> v] :
        u \in CallUris, t \in CallTitles, v \in CallVolumes}

\* track records the search endpoint may return
TrackAb == Track(Some(<<"A", "b">>), << <<"M">> >>, Some(40), ExactUri)
TrackB == Track(Some(<<"b">>), << <<"M">>, <<"N">> >>, Some(70), SpotifyTrackPrefix \o <<"Z", "9">>)
TrackNoArtists == Track(Some(<<"c">>), <<>>, Some(90), SpotifyTrackPrefix \o <<"c">>)
TrackNameless == Track(None, << <<"M">> >>, Some(50), SpotifyTrackPrefix \o <<"d">>)
TrackAlbumUri == Track(Some(<<"e">>), << <<"M">> >>, Some(60), AlbumUri)
TrackF == Track(Some(<<"f">>), << <<"N">> >>, Some(10), SpotifyTrackPrefix \o <<"f">>)
TrackG == Track(Some(<<"g">>), << <<"N">> >>, Some(20), SpotifyTrackPrefix \o <<"g">>)
TrackH == Track(Some(<<"h">>), << <<"N">> >>, Some(30), SpotifyTrackPrefix \o <<"h">>)
TrackI == Track(Some(<<"i">>), << <<"N">> >>, Some(35), SpotifyTrackPrefix \o <<"i">>)

SearchItems ==
    {<<>>, <<TrackAb>>, <<TrackAb, TrackB>>, <<TrackNoArtists>>,
     <<TrackAb, TrackNoArtists>>, <<TrackAb, TrackNameless>>, <<TrackAlbumUri>>,
     <<TrackAb, TrackB, TrackF, TrackG, TrackH, TrackI>>}

SearchReplies ==
    {ApiItems(items) : items \in SearchItems}
    \cup {ApiMalformed, ApiStatus(401), ApiStatus(500), ApiNetworkError}

RefreshReplies == {ApiItems(<<>>), ApiStatus(400), ApiStatus(500), ApiNetworkError}

PauseReplies == {ApiItems(<<>>), ApiStatus(404), ApiStatus(401), ApiNetworkError}

\* the arguments of a searchAndPlay call: options.radio is absent, true or
\* false
SearchInputs ==
    {[query |-> q, artist |-> <<>>, track |-> t, radioOption |-> radio] :
        q \in {<<>>, <<" ">>, <<"A", "b">>}, t \in {<<>>, <<"a", "b">>},
        radio \in {None, Some(TRUE), Some(FALSE)}}

\* the values the radio parameter of POST /search may come with: absent, a
\* JSON boolean or number, a string
RadioParams ==
    {UndefinedValue, BooleanValue(TRUE), BooleanValue(FALSE), NumberValue(0),
     StringValue(FalseText), StringValue(<<"t", "r", "u", "e">>),
     StringValue(<<"0">>), StringValue(<<>>)}

PostSearchInputs ==
    {[q |-> q, artist |-> <<>>, track |-> t, radio |-> radio] :
        q \in {<<>>, <<"A", "b">>}, t \in {<<>>, <<"a", "b">>}, radio \in RadioParams}

\* favorite names as the route receives them, and as a caller of the
\* exported function may pass them
RouteFavoriteNames == {<<"J", "z">>, <<"a", "_", "b">>, <<"a", "%", "2", "0", "b">>}
CallFavoriteNames == {<<>>, <<"J", "z">>}

\* the values the volume of POST /volume may come with: absent, a string, a
\* JSON boolean, numbers at and beyond both limits
VolumeParams ==
    {UndefinedValue, StringValue(<<"5", "0">>), BooleanValue(TRUE),
     NumberValue(-1), NumberValue(0), NumberValue(50), NumberValue(100),
     NumberValue(101)}

\* the values the uri of POST /upnp/play may come with
UpnpPlayUris ==
    {UndefinedValue, StringValue(<<>>), NumberValue(5), StringValue(ExactUri),
     StringValue(PaddedUri), StringValue(AlbumUri), StringValue(SpotifyTrackPrefix)}

\* what POST /album comes with, and what the album search and the track
\* listing answer
AlbumInputs ==
    {[q |-> q, artist |-> a] : q \in {<<>>, <<"A", "b">>}, a \in {<<>>, <<"c", "d">>}}

AlbumA == Album(<<"1">>, <<"A", "b">>, << <<"M">> >>)
AlbumB == Album(<<"2">>, <<"A", "b">>, << <<"C", "d">> >>)

AlbumReplies ==
    {ApiItems(<<>>), ApiItems(<<AlbumA, AlbumB>>), ApiMalformed, ApiStatus(401),
     ApiStatus(500), ApiNetworkError}

TracksReplies == {ApiItems(<<TrackAb, TrackB>>), ApiStatus(401), ApiStatus(500)}

\* whether loadSonosTokens finds stored tokens
SonosTokenFiles == {"present", "absent"}

GetSearchInputs ==
    {[q |-> q, artist |-> <<>>, track |-> t, radio |-> UndefinedValue] :
        q \in {<<>>, <<" ">>, <<"A", "b">>}, t \in {<<>>, <<"a", "b">>}}

\* two playback calls at once, each for a track of its own: the first
\* without a volume, the second with one
RaceArgs(r) ==
    IF r = "R1"
    THEN [spotifyUri |-> ExactUri, trackInfo |-> [title |-> UndefinedValue],
          volume |-> None]
    ELSE [spotifyUri |-> SpotifyTrackPrefix \o <<"Z", "9">>,
          trackInfo |-> [title |-> UndefinedValue], volume |-> Some(RouteVolume)]

-----------------------------------------------------------------------------
(* The steps of a request                                                  *)

\* a caller invokes upnp.playSpotifyTrack(spotifyUri, trackInfo, volume)
CallPlaySpotifyTrack(r) ==
    /\ EventLoopFree(r)
    /\ req[r].pc = "idle"
    /\ \E a \in CallArgs :
        req' = [req EXCEPT ![r] =
                   playSpotifyTrack([Receive(@) EXCEPT !.fn = "playSpotifyTrack", !.args = a])]
    /\ UNCHANGED <<speaker, spotifyTokenFile, pureVars>>

\* a caller invokes upnp.playSpotifyTrackWithRadio(spotifyUri, trackInfo, volume)
CallPlaySpotifyTrackWithRadio(r) ==
    /\ EventLoopFree(r)
    /\ req[r].pc = "idle"
    /\ \E a \in CallArgs :
        req' = [req EXCEPT ![r] =
                   playSpotifyTrackWithRadio(
                       [Receive(@) EXCEPT !.fn = "playSpotifyTrackWithRadio", !.args = a])]
    /\ UNCHANGED <<speaker, spotifyTokenFile, pureVars>>

\* the playback calls of two requests that run at once
RacePlaySpotifyTrack(r) ==
    /\ EventLoopFree(r)
    /\ req[r].pc = "idle"
    /\ req' = [req EXCEPT ![r] =
                  playSpotifyTrack([Receive(@) EXCEPT !.fn = "playSpotifyTrack",
                                             !.args = RaceArgs(r)])]
    /\ UNCHANGED <<speaker, spotifyTokenFile, pureVars>>

RacePlaySpotifyTrackWithRadio(r) ==
    /\ EventLoopFree(r)
    /\ req[r].pc = "idle"
    /\ req' = [req EXCEPT ![r] =
                  playSpotifyTrackWithRadio(
                      [Receive(@) EXCEPT !.fn = "playSpotifyTrackWithRadio",
                                !.args = RaceArgs(r)])]
    /\ UNCHANGED <<speaker, spotifyTokenFile, pureVars>>

\* a caller invokes searchAndPlay(query, { artist, track, radio })
CallSearchAndPlay(r) ==
    /\ EventLoopFree(r)
    /\ req[r].pc = "idle"
    /\ \E s \in SearchInputs : req' = [req EXCEPT ![r] = searchAndPlay(Receive(@), s)]
    /\ UNCHANGED <<speaker, spotifyTokenFile, pureVars>>

\* POST /search arrives
PostSearch(r) ==
    /\ EventLoopFree(r)
    /\ req[r].pc = "idle"
    /\ \E p \in PostSearchInputs : req' = [req EXCEPT ![r] = postSearch(Receive(@), p)]
    /\ UNCHANGED <<speaker, spotifyTokenFile, pureVars>>

\* GET /search arrives
GetSearch(r) ==
    /\ EventLoopFree(r)
    /\ req[r].pc = "idle"
    /\ \E p \in GetSearchInputs : req' = [req EXCEPT ![r] = getSearch(Receive(@), p)]
    /\ UNCHANGED <<speaker, spotifyTokenFile, pureVars>>

\* the search endpoint answers; it answers 401 only so many times
SearchSettles(r) ==
    /\ EventLoopFree(r)
    /\ req[r].pc = "searchSpotify:get"
    /\ \E reply \in SearchReplies :
        /\ reply = ApiStatus(401) => req[r].searchCalls < MaxSearchCalls
        /\ req' = [req EXCEPT ![r] =
                      searchSpotifyAfterGet([@ EXCEPT !.found = Append(@, reply)],
                                            reply, spotifyTokenFile)]
    /\ UNCHANGED <<speaker, spotifyTokenFile, pureVars>>

\* the token endpoint answers
RefreshSettles(r) ==
    /\ EventLoopFree(r)
    /\ req[r].pc = "refreshSpotifyToken:post"
    /\ \E reply \in RefreshReplies :
        /\ req' = [req EXCEPT ![r] =
                      refreshSpotifyTokenAfterPost(@, reply, spotifyTokenFile)]
        /\ spotifyTokenFile' = tokenFileAfterRefresh(reply, spotifyTokenFile)
    /\ UNCHANGED <<speaker, pureVars>>

\* POST /play/:favoriteName arrives
PostPlayFavorite(r) ==
    /\ EventLoopFree(r)
    /\ req[r].pc = "idle"
    /\ \E name \in RouteFavoriteNames :
        req' = [req EXCEPT ![r] = postPlayFavorite(Receive(@), name)]
    /\ UNCHANGED <<speaker, spotifyTokenFile, pureVars>>

\* POST /line-in arrives
PostLineIn(r) ==
    /\ EventLoopFree(r)
    /\ req[r].pc = "idle"
    /\ req' = [req EXCEPT ![r] = postLineIn(Receive(@))]
    /\ UNCHANGED <<speaker, spotifyTokenFile, pureVars>>

\* POST /volume arrives
PostVolume(r) ==
    /\ EventLoopFree(r)
    /\ req[r].pc = "idle"
    /\ \E volume \in VolumeParams, tokens \in SonosTokenFiles :
        req' = [req EXCEPT ![r] = postVolume(Receive(@), volume, tokens)]
    /\ UNCHANGED <<speaker, spotifyTokenFile, pureVars>>

\* POST /upnp/play arrives
PostUpnpPlay(r) ==
    /\ EventLoopFree(r)
    /\ req[r].pc = "idle"
    /\ \E uri \in UpnpPlayUris :
        req' = [req EXCEPT ![r] = postUpnpPlay(Receive(@), uri)]
    /\ UNCHANGED <<speaker, spotifyTokenFile, pureVars>>

\* POST /album arrives
PostAlbum(r) ==
    /\ EventLoopFree(r)
    /\ req[r].pc = "idle"
    /\ \E p \in AlbumInputs : req' = [req EXCEPT ![r] = postAlbum(Receive(@), p)]
    /\ UNCHANGED <<speaker, spotifyTokenFile, pureVars>>

\* the search endpoint answers the album search; it answers 401 only so
\* many times
AlbumSearchSettles(r) ==
    /\ EventLoopFree(r)
    /\ req[r].pc = "searchSpotifyAlbum:search"
    /\ \E reply \in AlbumReplies :
        /\ reply = ApiStatus(401) => req[r].searchCalls < MaxSearchCalls
        /\ req' = [req EXCEPT ![r] =
                      searchSpotifyAlbumAfterSearch(
                          [@ EXCEPT !.found = Append(@, reply)], reply, spotifyTokenFile)]
    /\ UNCHANGED <<speaker, spotifyTokenFile, pureVars>>

\* the album endpoint answers the track listing
AlbumTracksSettles(r) ==
    /\ EventLoopFree(r)
    /\ req[r].pc = "searchSpotifyAlbum:tracks"
    /\ \E reply \in TracksReplies :
        /\ reply = ApiStatus(401) => req[r].searchCalls < MaxSearchCalls
        /\ req' = [req EXCEPT ![r] =
                      searchSpotifyAlbumAfterTracks(
                          [@ EXCEPT !.found = Append(@, reply)],
                          req[r].found[Len(req[r].found)].items, reply,
                          spotifyTokenFile)]
    /\ UNCHANGED <<speaker, spotifyTokenFile, pureVars>>

\* the token endpoint answers the refresh of the album search
AlbumRefreshSettles(r) ==
    /\ EventLoopFree(r)
    /\ req[r].pc = "searchSpotifyAlbum:refresh"
    /\ \E reply \in RefreshReplies :
        /\ req' = [req EXCEPT ![r] =
                      searchSpotifyAlbumAfterRefresh(@, reply, spotifyTokenFile)]
        /\ spotifyTokenFile' = tokenFileAfterRefresh(reply, spotifyTokenFile)
    /\ UNCHANGED <<speaker, pureVars>>

\* a caller invokes the exported playFavoriteAfterDelay(favoriteName)
CallPlayFavoriteAfterDelay(r) ==
    /\ EventLoopFree(r)
    /\ req[r].pc = "idle"
    /\ \E name \in CallFavoriteNames :
        req' = [req EXCEPT ![r] = playFavoriteAfterDelay(Receive(@), name)]
    /\ UNCHANGED <<speaker, spotifyTokenFile, pureVars>>

\* the pause endpoint answers
PauseSettles(r) ==
    /\ EventLoopFree(r)
    /\ req[r].pc = "pauseSpotify:put"
    /\ \E reply \in PauseReplies, tokens \in SonosTokenFiles :
        req' = [req EXCEPT ![r] =
                   pauseSpotifyAfterPut(
                       [@ EXCEPT !.pauseReplies = Append(@, reply)], reply, tokens)]
    /\ UNCHANGED <<speaker, spotifyTokenFile, pureVars>>

\* the arrival timer fires and playFavoriteAfterDelay runs on
ArrivalTimerFires(r) ==
    /\ EventLoopFree(r)
    /\ req[r].pc = "playFavoriteAfterDelay:setTimeout"
    /\ arrivalTimerDue(req[r].elapsed)
    /\ \E tokens \in SonosTokenFiles :
        req' = [req EXCEPT ![r] = getSonosGroup(@, tokens)]
    /\ UNCHANGED <<speaker, spotifyTokenFile, pureVars>>

\* the Sonos Cloud answers the awaited call: an accepted command takes
\* effect on the speaker
SonosApiSettles(r) ==
    /\ EventLoopFree(r)
    /\ req[r].pc = "sonosApi"
    /\ \E reply \in CloudReplies :
        /\ req' = [req EXCEPT ![r] =
                      sonosApiAfter([@ EXCEPT !.cloudReplies = Append(@, reply)], reply)]
        /\ speaker' = IF reply = "failed" THEN speaker
                      ELSE CloudSpeakerAfter(speaker, req[r].cloud[Len(req[r].cloud)],
                                             IF req[r].volumes = <<>> THEN NumberValue(0)
                                             ELSE req[r].volumes[Len(req[r].volumes)])
    /\ UNCHANGED <<spotifyTokenFile, pureVars>>

\* the reply to the awaited SOAP action is recorded with the request
Replied(f, reply) == [f EXCEPT !.replies = Append(@, reply)]

\* the speaker answers the SOAP action the request awaits: an accepted
\* action takes effect on the speaker
SoapSettles(r, reply) ==
    /\ speaker' = IF soapRequest(reply).ok
                  THEN [SpeakerAfter(speaker, Awaited(req[r])) EXCEPT
                           !.arrived = Append(@, <<r, Len(req[r].sent)>>)]
                  ELSE speaker
    /\ UNCHANGED <<spotifyTokenFile, pureVars>>

PlaySpotifyTrackSetVolumeSettles(r) ==
    /\ EventLoopFree(r)
    /\ req[r].pc = "playSpotifyTrack:setVolume"
    /\ \E reply \in SpeakerReplies :
        /\ req' = [req EXCEPT ![r] =
                      playSpotifyTrackAfterSetVolume(Replied(@, reply), soapRequest(reply))]
        /\ SoapSettles(r, reply)

PlaySpotifyTrackLoadSettles(r) ==
    /\ EventLoopFree(r)
    /\ req[r].pc = "playSpotifyTrack:setAVTransportURI"
    /\ \E reply \in SpeakerReplies :
        /\ req' = [req EXCEPT ![r] =
                      playSpotifyTrackAfterLoad(Replied(@, reply), soapRequest(reply))]
        /\ SoapSettles(r, reply)

PlaySpotifyTrackPlaySettles(r) ==
    /\ EventLoopFree(r)
    /\ req[r].pc = "playSpotifyTrack:play"
    /\ \E reply \in SpeakerReplies :
        /\ req' = [req EXCEPT ![r] =
                      playSpotifyTrackAfterPlay(Replied(@, reply), soapRequest(reply))]
        /\ SoapSettles(r, reply)

RadioSetVolumeSettles(r) ==
    /\ EventLoopFree(r)
    /\ req[r].pc = "playSpotifyTrackWithRadio:setVolume"
    /\ \E reply \in SpeakerReplies :
        /\ req' = [req EXCEPT ![r] =
                      playSpotifyTrackWithRadioAfterSetVolume(Replied(@, reply), soapRequest(reply))]
        /\ SoapSettles(r, reply)

RadioLoadSettles(r) ==
    /\ EventLoopFree(r)
    /\ req[r].pc = "playSpotifyTrackWithRadio:setAVTransportURI"
    /\ \E reply \in SpeakerReplies :
        /\ req' = [req EXCEPT ![r] =
                      playSpotifyTrackWithRadioAfterLoad(Replied(@, reply), soapRequest(reply))]
        /\ SoapSettles(r, reply)

RadioPlaySettles(r) ==
    /\ EventLoopFree(r)
    /\ req[r].pc = "playSpotifyTrackWithRadio:play"
    /\ \E reply \in SpeakerReplies :
        /\ req' = [req EXCEPT ![r] =
                      playSpotifyTrackWithRadioAfterPlay(Replied(@, reply), soapRequest(reply))]
        /\ SoapSettles(r, reply)

RadioURISettles(r) ==
    /\ EventLoopFree(r)
    /\ req[r].pc = "playSpotifyTrackWithRadio:radioURI"
    /\ \E reply \in SpeakerReplies :
        /\ req' = [req EXCEPT ![r] =
                      playSpotifyTrackWithRadioAfterRadioURI(Replied(@, reply), soapRequest(reply))]
        /\ SoapSettles(r, reply)

RadioPlayAgainSettles(r) ==
    /\ EventLoopFree(r)
    /\ req[r].pc = "playSpotifyTrackWithRadio:radioPlay"
    /\ \E reply \in SpeakerReplies :
        /\ req' = [req EXCEPT ![r] =
                      playSpotifyTrackWithRadioAfterRadioPlay(Replied(@, reply), soapRequest(reply))]
        /\ SoapSettles(r, reply)

\* the request waits for a timer that is not due
TimerPending(f) ==
    \/ f.pc = "playSpotifyTrackWithRadio:setTimeout" /\ ~timerDue(f.elapsed)
    \/ f.pc = "playFavoriteAfterDelay:setTimeout" /\ ~arrivalTimerDue(f.elapsed)

\* time passes while some timer is pending
Tick ==
    /\ \E r \in Reqs : TimerPending(req[r])
    /\ req' = [r \in Reqs |->
                  IF req[r].pc \in {"playSpotifyTrackWithRadio:setTimeout",
                                    "playFavoriteAfterDelay:setTimeout"}
                  THEN [req[r] EXCEPT !.elapsed = @ + TickMs]
                  ELSE req[r]]
    /\ UNCHANGED <<speaker, spotifyTokenFile, pureVars>>

\* the settling timer fires and the request runs on
TimerFires(r) ==
    /\ EventLoopFree(r)
    /\ req[r].pc = "playSpotifyTrackWithRadio:setTimeout"
    /\ timerDue(req[r].elapsed)
    /\ req' = [req EXCEPT ![r] = playSpotifyTrackWithRadioAfterDelay(@)]
    /\ UNCHANGED <<speaker, spotifyTokenFile, pureVars>>

\* the record of the attempts made before a refresh is dropped: the call
\* that searches again is in the program state of the first attempt
StartOver(f) == [f EXCEPT !.found = <<>>, !.searchCalls = 0, !.refreshCalls = 0]

\* the search endpoint answers, with a 401 as often as it likes
SearchSettlesAnyTimes(r) ==
    /\ EventLoopFree(r)
    /\ req[r].pc = "searchSpotify:get"
    /\ \E reply \in SearchReplies :
        req' = [req EXCEPT ![r] =
                   searchSpotifyAfterGet([@ EXCEPT !.found = Append(@, reply)],
                                         reply, spotifyTokenFile)]
    /\ UNCHANGED <<speaker, spotifyTokenFile, pureVars>>

\* the token endpoint answers, and only the attempts since are recorded
RefreshSettlesStartOver(r) ==
    /\ EventLoopFree(r)
    /\ req[r].pc = "refreshSpotifyToken:post"
    /\ \E reply \in RefreshReplies :
        /\ req' = [req EXCEPT ![r] =
                      refreshSpotifyTokenAfterPost(StartOver(@), reply, spotifyTokenFile)]
        /\ spotifyTokenFile' = tokenFileAfterRefresh(reply, spotifyTokenFile)
    /\ UNCHANGED <<speaker, pureVars>>

-----------------------------------------------------------------------------
(* The SOAP transport and the facade operations, each called on its own    *)

\* how many events of one HTTP request are followed
MaxSoapEvents == 2

\* a call that has not been made; once made, wire holds the HTTP requests
\* written to the speaker, events what came back for them, outcome how the
\* promise of the call settled, settles how many times it did
NoSoapCall ==
    [op |-> "none", wire |-> <<>>, events |-> <<>>, outcome |-> None, settles |-> 0]

SoapIdle == soap = NoSoapCall

\* new Promise((resolve, reject) => ...): the first resolve or reject
\* settles the promise, a later one has no effect
settle(c, result) ==
    IF c.outcome = None
    THEN [c EXCEPT !.outcome = Some(result), !.settles = @ + 1]
    ELSE c

\* soapRequest up to req.end() (upnp.js 20-62): one HTTP request is written
soapSend(c, action) == [c EXCEPT !.wire = Append(@, action)]

\* a variant of the facade operations that sends the action once more when
\* the transport failed
facadeReturnRetry(c, settled) ==
    IF ~settled.ok /\ Len(c.wire) < 2
    THEN soapSend(c, c.wire[1])
    ELSE settle(c, settled)

\* 'return soapRequest(...)' in a facade operation: the promise of the
\* operation settles as the promise of the transport does
facadeReturn(c, settled) == settle(c, settled)

\* a facade operation is called: request is the action it built, or the
\* Error it threw before the transport was used
facadeCall(op, request) ==
    IF request.ok
    THEN soapSend([NoSoapCall EXCEPT !.op = op], request.value)
    ELSE settle([NoSoapCall EXCEPT !.op = op], request)

\* the handlers of the response's 'end' event (lines 48-54) and of the
\* request's 'error' event (lines 57-59)
soapEvent(c, reply) ==
    LET heard == [c EXCEPT !.events = Append(@, reply)] IN
    IF c.op = "soapRequest"
    THEN settle(heard, soapRequest(reply))
    ELSE facadeReturn(heard, soapRequest(reply))

\* the statuses and bodies a speaker may answer with, and the messages of
\* network-level errors
SoapStatuses == {199, 200, 204, 299, 300, 404, 500}

SoapBodies == {<<>>, <<"o", "k">>}

\* "connect ETIMEDOUT"
TimedOutText ==
    <<"c", "o", "n", "n", "e", "c", "t", " ", "E", "T", "I", "M", "E", "D",
      "O", "U", "T">>

SoapErrors == {ConnRefusedText, TimedOutText}

\* the facade operations with the arguments they are called with
FacadeOps ==
    {"setAVTransportURI", "play", "stop", "pause", "setVolume", "getTransportInfo"}

FacadeCalls ==
    {[op |-> "setAVTransportURI", request |-> setAVTransportURI(u, [title |-> t])] :
        u \in CallUris, t \in CallTitles}
    \cup {[op |-> "setVolume", request |-> Returned(setVolume(v))] :
            v \in {RouteVolume, OtherVolume}}
    \cup {[op |-> "play", request |-> Returned(play)],
          [op |-> "stop", request |-> Returned(stop)],
          [op |-> "pause", request |-> Returned(pause)],
          [op |-> "getTransportInfo", request |-> Returned(getTransportInfo)]}

\* a caller invokes the exported soapRequest
CallSoapRequest ==
    /\ soap.op = "none"
    /\ \E a \in {play, getTransportInfo} :
        soap' = soapSend([NoSoapCall EXCEPT !.op = "soapRequest"], a)
    /\ UNCHANGED <<codecVars, xmlVars, rankVars, refreshVars, playVars>>

\* a caller invokes a facade operation
CallFacade ==
    /\ soap.op = "none"
    /\ \E c \in FacadeCalls : soap' = facadeCall(c.op, c.request)
    /\ UNCHANGED <<codecVars, xmlVars, rankVars, refreshVars, playVars>>

\* the speaker's response has been read to its end
ResponseEnds ==
    /\ soap.wire # <<>>
    /\ Len(soap.events) < MaxSoapEvents
    /\ \A i \in 1..Len(soap.events) : soap.events[i].net
    /\ \E status \in SoapStatuses, data \in SoapBodies :
        soap' = soapEvent(soap, HttpResponse(status, data))
    /\ UNCHANGED <<codecVars, xmlVars, rankVars, refreshVars, playVars>>

\* the HTTP request emits 'error'
RequestErrors ==
    /\ soap.wire # <<>>
    /\ Len(soap.events) < MaxSoapEvents
    /\ \E message \in SoapErrors : soap' = soapEvent(soap, NetworkError(message))
    /\ UNCHANGED <<codecVars, xmlVars, rankVars, refreshVars, playVars>>

NextSoap ==
    \/ CallSoapRequest
    \/ CallFacade
    \/ ResponseEnds
    \/ RequestErrors

-----------------------------------------------------------------------------
(* Token refresh: refreshSonosToken and refreshSpotifyToken, called by the *)
(* timers of main and by the requests, each on its own token file          *)

\* who calls a refresh: a timer of setInterval (lines 830, 833), one of two
\* requests (getSonosGroup line 212, the 401 handlers of the Spotify calls)
Refreshers == {"timer", "R1", "R2"}

RefreshFns == {"refreshSonosToken", "refreshSpotifyToken"}

\* the token file a refresh function loads, saves and deletes
tokenPathOf(fn) == IF fn = "refreshSonosToken" THEN "sonos" ELSE "spotify"

NoRefreshCall == [fn |-> "none", pc |-> "idle", outcome |-> None]

RefreshIdle ==
    refresh = [files |-> [sonos |-> "present", spotify |-> "present"],
               calls |-> [c \in Refreshers |-> NoRefreshCall]]

\* a refresh function up to its await of axios.post (lines 107-120,
\* 150-163): without stored tokens it returns false
refreshToken(fn, tokenFile) ==
    IF tokenFile = "absent"
    THEN [fn |-> fn, pc |-> "done", outcome |-> Some(Returned(FALSE))]
    ELSE [fn |-> fn, pc |-> "axios.post", outcome |-> None]

\* a refresh function after await axios.post (lines 132-147, 175-190): the
\* catch block deletes the token file for a 400 or 401, and fs.unlinkSync
\* throws ENOENT when the file is not there
refreshTokenAfterPost(c, reply, tokenFile) ==
    [c EXCEPT !.pc = "done",
              !.outcome =
                  Some(IF reply.kind = "ok" THEN Returned(TRUE)
                       ELSE IF RefreshRefused(reply) /\ tokenFile = "absent"
                            THEN Thrown(NoEntText)
                            ELSE Returned(FALSE))]

\* a timer or a request calls a refresh function
CallRefreshToken(c) ==
    /\ refresh.calls[c].pc = "idle"
    /\ \E fn \in RefreshFns :
        refresh' = [refresh EXCEPT
                       !.calls[c] = refreshToken(fn, refresh.files[tokenPathOf(fn)])]
    /\ UNCHANGED <<codecVars, xmlVars, rankVars, soapVars, playVars>>

\* the token endpoint answers the refresh
RefreshTokenSettles(c) ==
    /\ refresh.calls[c].pc = "axios.post"
    /\ \E reply \in RefreshReplies :
        LET path == tokenPathOf(refresh.calls[c].fn) IN
        refresh' = [refresh EXCEPT
                       !.calls[c] = refreshTokenAfterPost(@, reply, refresh.files[path]),
                       !.files[path] = tokenFileAfterRefresh(reply, @)]
    /\ UNCHANGED <<codecVars, xmlVars, rankVars, soapVars, playVars>>

NextRefresh ==
    \/ \E c \in Refreshers : CallRefreshToken(c)
    \/ \E c \in Refreshers : RefreshTokenSettles(c)

vars == <<pureVars, playVars>>

Init ==
    /\ RequestsIdle
    /\ CodecIdle
    /\ XmlIdle
    /\ RankIdle
    /\ SoapIdle
    /\ RefreshIdle

Next ==
    \/ \E r \in Reqs : CallPlaySpotifyTrack(r)
    \/ \E r \in Reqs : CallPlaySpotifyTrackWithRadio(r)
    \/ \E r \in Reqs : CallSearchAndPlay(r)
    \/ \E r \in Reqs : PostSearch(r)
    \/ \E r \in Reqs : GetSearch(r)
    \/ \E r \in Reqs : PostPlayFavorite(r)
    \/ \E r \in Reqs : PostLineIn(r)
    \/ \E r \in Reqs : PostVolume(r)
    \/ \E r \in Reqs : PostUpnpPlay(r)
    \/ \E r \in Reqs : PostAlbum(r)
    \/ \E r \in Reqs : AlbumSearchSettles(r)
    \/ \E r \in Reqs : AlbumTracksSettles(r)
    \/ \E r \in Reqs : AlbumRefreshSettles(r)
    \/ \E r \in Reqs : CallPlayFavoriteAfterDelay(r)
    \/ \E r \in Reqs : ArrivalTimerFires(r)
    \/ \E r \in Reqs : SonosApiSettles(r)
    \/ \E r \in Reqs : SearchSettles(r)
    \/ \E r \in Reqs : RefreshSettles(r)
    \/ \E r \in Reqs : PauseSettles(r)
    \/ \E r \in Reqs : PlaySpotifyTrackSetVolumeSettles(r)
    \/ \E r \in Reqs : PlaySpotifyTrackLoadSettles(r)
    \/ \E r \in Reqs : PlaySpotifyTrackPlaySettles(r)
    \/ \E r \in Reqs : RadioSetVolumeSettles(r)
    \/ \E r \in Reqs : RadioLoadSettles(r)
    \/ \E r \in Reqs : RadioPlaySettles(r)
    \/ \E r \in Reqs : RadioURISettles(r)
    \/ \E r \in Reqs : RadioPlayAgainSettles(r)
    \/ Tick
    \/ \E r \in Reqs : TimerFires(r)

Spec == Init /\ [][Next]_vars

\* two playback requests received at once
InitRace ==
    /\ req = [r \in Reqs |-> IdleFrame("idle")]
    /\ speaker = [volume |-> InitialVolume, uri |-> <<>>, state |-> "STOPPED",
                  arrived |-> <<>>]
    /\ spotifyTokenFile = "present"
    /\ CodecIdle
    /\ XmlIdle
    /\ RankIdle
    /\ SoapIdle
    /\ RefreshIdle

NextRace ==
    \/ \E r \in Reqs : RacePlaySpotifyTrack(r)
    \/ \E r \in Reqs : RacePlaySpotifyTrackWithRadio(r)
    \/ \E r \in Reqs : PlaySpotifyTrackSetVolumeSettles(r)
    \/ \E r \in Reqs : PlaySpotifyTrackLoadSettles(r)
    \/ \E r \in Reqs : PlaySpotifyTrackPlaySettles(r)
    \/ \E r \in Reqs : RadioSetVolumeSettles(r)
    \/ \E r \in Reqs : RadioLoadSettles(r)
    \/ \E r \in Reqs : RadioPlaySettles(r)
    \/ \E r \in Reqs : RadioURISettles(r)
    \/ \E r \in Reqs : RadioPlayAgainSettles(r)
    \/ Tick
    \/ \E r \in Reqs : TimerFires(r)

SpecRace == InitRace /\ [][NextRace]_vars

\* the codec functions, each applied to every input of CodecInputs
InitCodec ==
    /\ codecIn \in CodecInputs
    /\ codecOp = "none"
    /\ codecOut = NotCalled
    /\ RequestsIdle
    /\ XmlIdle
    /\ RankIdle
    /\ SoapIdle
    /\ RefreshIdle

SpecCodec == InitCodec /\ [][NextCodec]_vars

\* escapeXml and buildSpotifyMetadata, each applied to every input of XmlInputs
InitXml ==
    /\ xmlIn \in XmlInputs
    /\ xmlOp = "none"
    /\ xmlOut = <<>>
    /\ RequestsIdle
    /\ CodecIdle
    /\ RankIdle
    /\ SoapIdle
    /\ RefreshIdle

SpecXml == InitXml /\ [][NextXml]_vars

\* rankSearchResults applied, up to MaxRankCalls times, to every input of
\* RankInputs
InitRank ==
    /\ rankIn \in RankInputs
    /\ rankOut = <<>>
    /\ rankSteps = <<>>
    /\ RequestsIdle
    /\ CodecIdle
    /\ XmlIdle
    /\ SoapIdle
    /\ RefreshIdle

SpecRank == InitRank /\ [][NextRank]_vars

\* one call of soapRequest or of a facade operation, and what comes back
InitSoap ==
    /\ RequestsIdle
    /\ CodecIdle
    /\ XmlIdle
    /\ RankIdle
    /\ SoapIdle
    /\ RefreshIdle

SpecSoap == InitSoap /\ [][NextSoap]_vars

\* a timer and two requests that refresh tokens, one after or during another
InitRefresh ==
    /\ RequestsIdle
    /\ CodecIdle
    /\ XmlIdle
    /\ RankIdle
    /\ SoapIdle
    /\ RefreshIdle

SpecRefresh == InitRefresh /\ [][NextRefresh]_vars

\* a searchAndPlay call whose every external call comes back and whose timer
\* fires: a step is taken whenever one can be
NextLive ==
    \/ \E r \in Reqs : CallSearchAndPlay(r)
    \/ \E r \in Reqs : SearchSettlesAnyTimes(r)
    \/ \E r \in Reqs : RefreshSettlesStartOver(r)
    \/ \E r \in Reqs : PauseSettles(r)
    \/ \E r \in Reqs : PlaySpotifyTrackSetVolumeSettles(r)
    \/ \E r \in Reqs : PlaySpotifyTrackLoadSettles(r)
    \/ \E r \in Reqs : PlaySpotifyTrackPlaySettles(r)
    \/ \E r \in Reqs : RadioLoadSettles(r)
    \/ \E r \in Reqs : RadioPlaySettles(r)
    \/ \E r \in Reqs : RadioURISettles(r)
    \/ \E r \in Reqs : RadioPlayAgainSettles(r)
    \/ Tick
    \/ \E r \in Reqs : TimerFires(r)

SpecLive == Init /\ [][NextLive]_vars /\ WF_vars(NextLive)

-----------------------------------------------------------------------------
(* Properties of the track playback orchestrator                           *)

\* the names of the actions a request has issued, in order
ActionNames(f) == [i \in 1..Len(f.sent) |-> f.sent[i].action]

IsPrefix(a, b) == Len(a) <= Len(b) /\ \A i \in 1..Len(a) : a[i] = b[i]

\* the reply with number i reported success
Accepted(f, i) == i <= Len(f.replies) /\ soapRequest(f.replies[i]).ok

\* the request runs playSpotifyTrack: called from outside, or by searchAndPlay
\* with radio off (through playSpotifyTrackOnSonos)
RunsPlaySpotifyTrack(f) ==
    \/ f.fn = "playSpotifyTrack"
    \/ f.fn = "searchAndPlay" /\ ~f.search.radio

\* the request runs playSpotifyTrackWithRadio
RunsPlaySpotifyTrackWithRadio(f) ==
    \/ f.fn = "playSpotifyTrackWithRadio"
    \/ f.fn = "searchAndPlay" /\ f.search.radio

\* the action names of a complete playSpotifyTrack call with these arguments
TrackSequence(a) ==
    (IF a.volume # None THEN <<"SetVolume">> ELSE <<>>)
    \o <<"SetAVTransportURI", "Play">>

\* C1: a playSpotifyTrack call issues SetVolume (with the given volume, and
\* only when one is given), then SetAVTransportURI, then Play, in that order
\* and nothing else; every action but the first is issued only once the
\* action before it was answered with success; a successful call has issued
\* all of them.
C1_PlayTrackOrder ==
    \A r \in Reqs :
        LET f == req[r] IN
        RunsPlaySpotifyTrack(f) =>
            /\ IsPrefix(ActionNames(f), TrackSequence(f.args))
            /\ \A i \in 1..Len(f.sent) :
                 /\ f.sent[i].action = "SetVolume" => f.sent[i].volume = f.args.volume
                 /\ i > 1 => Accepted(f, i - 1)
            /\ (f.result # None /\ f.result[1].success) =>
                 /\ ActionNames(f) = TrackSequence(f.args)
                 /\ \A i \in 1..Len(f.sent) : Accepted(f, i)

C1_Witness ==
    \E r \in Reqs :
        /\ req[r].fn = "playSpotifyTrack"
        /\ req[r].args.volume # None
        /\ req[r].result = Some(Success)
        /\ ActionNames(req[r]) = <<"SetVolume", "SetAVTransportURI", "Play">>

\* C2: in a playSpotifyTrack call, a step that fails is the last step of the
\* call (nothing is issued after it) and the call returns success false with
\* that step's error message; a reference setAVTransportURI refuses ends the
\* call with its message before SetAVTransportURI or Play is sent.
C2_PlayTrackFirstError ==
    \A r \in Reqs :
        LET f == req[r]
            load == setAVTransportURI(f.args.spotifyUri, f.args.trackInfo)
        IN  f.fn = "playSpotifyTrack" =>
            /\ \A i \in 1..Len(f.replies) :
                 ~Accepted(f, i) =>
                    /\ i = Len(f.sent)
                    /\ f.pc = "done"
                    /\ f.result = Some(Failure(soapRequest(f.replies[i]).error))
            /\ (f.pc = "done" /\ ~load.ok /\ \A i \in 1..Len(f.replies) : Accepted(f, i)) =>
                    /\ f.result = Some(Failure(load.error))
                    /\ \A i \in 1..Len(f.sent) : f.sent[i].action = "SetVolume"

C2_Witness ==
    \E r \in Reqs :
        /\ req[r].fn = "playSpotifyTrack"
        /\ Len(req[r].replies) = 2
        /\ Accepted(req[r], 1)
        /\ ~Accepted(req[r], 2)
        /\ req[r].result # None
        /\ ~req[r].result[1].success

\* C3: when a playSpotifyTrack call has failed, what its accepted actions
\* changed on the speaker is still in effect (the volume it set, the URI it
\* loaded), and the call has issued nothing but its own steps, each once: no
\* Stop, no second SetVolume, no second SetAVTransportURI.
C3_NoRollback ==
    \A r \in Reqs :
        LET f == req[r] IN
        (f.fn = "playSpotifyTrack" /\ f.result # None /\ ~f.result[1].success) =>
            /\ Len(f.sent) = Len(f.replies)
            /\ IsPrefix(ActionNames(f), TrackSequence(f.args))
            /\ \A i \in 1..Len(f.sent) :
                 Accepted(f, i) =>
                    /\ f.sent[i].action = "SetVolume" =>
                          speaker.volume = f.args.volume[1]
                    /\ f.sent[i].action = "SetAVTransportURI" =>
                          speaker.uri = f.sent[i].uri

C3_Witness ==
    \E r \in Reqs :
        /\ req[r].fn = "playSpotifyTrack"
        /\ ActionNames(req[r]) = <<"SetVolume", "SetAVTransportURI", "Play">>
        /\ Accepted(req[r], 1)
        /\ Accepted(req[r], 2)
        /\ ~Accepted(req[r], 3)
        /\ req[r].result # None
        /\ ~req[r].result[1].success
        /\ speaker.volume = req[r].args.volume[1]
        /\ speaker.volume # InitialVolume
        /\ speaker.uri = req[r].sent[2].uri
        /\ speaker.state = "STOPPED"

\* C4: playSpotifyTrack, playSpotifyTrackWithRadio and searchAndPlay never
\* reject: a call that has ended has resolved to a result, and a result that
\* is not a success carries a non-empty error message.
C4_NeverRejects ==
    \A r \in Reqs :
        LET f == req[r] IN
        f.fn \in {"playSpotifyTrack", "playSpotifyTrackWithRadio", "searchAndPlay"} =>
        /\ ~f.rejected
        /\ f.pc = "done" =>
             /\ f.result # None
             /\ ~f.result[1].success =>
                  /\ f.result[1].error # None
                  /\ f.result[1].error[1] # <<>>

\* a searchAndPlay call that met a malformed search record has ended with
\* the TypeError's message
C4_Witness ==
    \E r \in Reqs :
        /\ req[r].fn = "searchAndPlay"
        /\ req[r].pc = "done"
        /\ req[r].result # None
        /\ ~req[r].result[1].success
        /\ req[r].result[1].error = Some(ReadingLowerText)

\* C5: one search invocation sends at most two search requests and at most
\* one token refresh.
C5_AtMostOneRetry ==
    \A r \in Reqs :
        /\ req[r].searchCalls <= 2
        /\ req[r].refreshCalls <= 1

\* the action names of a complete playSpotifyTrackWithRadio call
RadioSequence(a) == TrackSequence(a) \o <<"SetAVTransportURI", "Play">>

\* the position of the radio SetAVTransportURI in a call with these arguments
RadioIndex(a) == Len(TrackSequence(a)) + 1

\* C6: a successful playSpotifyTrackWithRadio call has issued exactly
\* SetVolume (if a volume is given), SetAVTransportURI with the track URI,
\* Play, SetAVTransportURI with the radio URI, Play, in that order, each
\* accepted; and whenever the radio SetAVTransportURI has been issued, the
\* Play before it was accepted and the 2000 ms of the timer had elapsed.
C6_RadioOrder ==
    \A r \in Reqs :
        LET f == req[r]
            k == RadioIndex(f.args)
        IN  RunsPlaySpotifyTrackWithRadio(f) =>
            /\ IsPrefix(ActionNames(f), RadioSequence(f.args))
            /\ Len(f.sent) >= k =>
                 /\ f.sent[k - 1].action = "Play"
                 /\ Accepted(f, k - 1)
                 /\ f.elapsed >= SettleDelayMs
            /\ (f.result # None /\ f.result[1].success) =>
                 /\ ActionNames(f) = RadioSequence(f.args)
                 /\ \A i \in 1..Len(f.sent) : Accepted(f, i)
                 /\ f.sent[k - 2].uri = spotifyToSonosUri(f.args.spotifyUri).value
                 /\ f.sent[k].uri = spotifyToSonosRadioUri(f.args.spotifyUri).value
                 /\ f.sent[k].uri # f.sent[k - 2].uri

C6_Witness ==
    \E r \in Reqs :
        /\ req[r].fn = "playSpotifyTrackWithRadio"
        /\ req[r].result = Some(Success)
        /\ Len(req[r].sent) = 5
        /\ req[r].elapsed >= SettleDelayMs

\* C7: in playSpotifyTrackWithRadio, when the radio SetAVTransportURI or the
\* second Play fails, the call returns success false with that error and has
\* issued nothing after the failed action; the speaker keeps playing, with
\* the URI of the last accepted SetAVTransportURI loaded.
C7_RadioFailure ==
    \A r \in Reqs :
        LET f == req[r]
            k == RadioIndex(f.args)
        IN  f.fn = "playSpotifyTrackWithRadio" =>
            \A i \in k..Len(f.replies) :
                ~Accepted(f, i) =>
                    /\ i = Len(f.sent)
                    /\ f.result = Some(Failure(soapRequest(f.replies[i]).error))
                    /\ IsPrefix(ActionNames(f), RadioSequence(f.args))
                    /\ speaker.state = "PLAYING"
                    /\ speaker.uri = f.sent[IF i = k THEN k - 2 ELSE k].uri

C7_Witness ==
    \E r \in Reqs :
        /\ req[r].fn = "playSpotifyTrackWithRadio"
        /\ Len(req[r].replies) = RadioIndex(req[r].args) + 1
        /\ ~Accepted(req[r], Len(req[r].replies))
        /\ req[r].result # None
        /\ ~req[r].result[1].success
        /\ speaker.state = "PLAYING"
        /\ speaker.uri = spotifyToSonosRadioUri(req[r].args.spotifyUri).value

-----------------------------------------------------------------------------
(* Properties of the URI codec                                             *)

\* "Invalid Spotify URI format"
InvalidUriFormat == SubSeq(InvalidUriText, 1, 26)

\* C8: applied to a string that is not exactly spotify:track:<id>, both
\* codec functions throw 'Invalid Spotify URI format' and return no URI.
C8_RejectsInexact ==
    (codecOp # "none" /\ ~IsExactTrackRef(codecIn)) =>
        /\ ~codecOut.ok
        /\ OccursAt(codecOut.error, InvalidUriFormat, 1)

\* "spotify%3Atrack%3A": the literal with each ':' percent-encoded
EncodedTrackPrefix ==
    <<"s", "p", "o", "t", "i", "f", "y", "%", "3", "A",
      "t", "r", "a", "c", "k", "%", "3", "A">>

TestQuery ==
    <<"?", "s", "i", "d", "=", "9", "&",
      "f", "l", "a", "g", "s", "=", "8", "2", "2", "4", "&", "s", "n", "=", "7">>

\* C10: applied to spotify:track:<id>, spotifyToSonosUri returns
\* 'x-sonos-spotify:spotify%3Atrack%3A<id>?sid=9&flags=8224&sn=7', as
\* tests/upnp.test.js expects.
C10_ServiceIdNine ==
    (codecOp = "spotifyToSonosUri" /\ IsExactTrackRef(codecIn)) =>
        codecOut = Returned(SonosScheme \o EncodedTrackPrefix
                            \o ExactTrackId(codecIn) \o TestQuery)

\* "spotify%3Atrackradio%3A": 'spotify:trackradio:' with each ':' encoded
EncodedRadioPrefix ==
    <<"s", "p", "o", "t", "i", "f", "y", "%", "3", "A",
      "t", "r", "a", "c", "k", "r", "a", "d", "i", "o", "%", "3", "A">>

\* s with the first occurrence of 'track' replaced by 'trackradio'
TrackToTrackRadio(s) ==
    LET word == <<"t", "r", "a", "c", "k">>
        i == CHOOSE j \in 1..Len(s) :
                 /\ OccursAt(s, word, j)
                 /\ \A k \in 1..(j - 1) : ~OccursAt(s, word, k)
    IN  SubSeq(s, 1, i + 4) \o <<"r", "a", "d", "i", "o">> \o SubSeq(s, i + 5, Len(s))

\* C11: applied to spotify:track:<id>, spotifyToSonosRadioUri returns
\* 'x-sonos-spotify:' + the percent-encoded 'spotify:trackradio:<id>' +
\* '?sid=12&flags=8224&sn=7', which is spotifyToSonosUri's result for the
\* same input with 'track' replaced by 'trackradio'; and for every input it
\* throws exactly when spotifyToSonosUri throws, with the same message.
C11_RadioUri ==
    codecOp = "spotifyToSonosRadioUri" =>
        /\ codecOut.ok = spotifyToSonosUri(codecIn).ok
        /\ ~codecOut.ok => codecOut = spotifyToSonosUri(codecIn)
        /\ IsExactTrackRef(codecIn) =>
              /\ codecOut = Returned(SonosScheme \o EncodedRadioPrefix
                                     \o ExactTrackId(codecIn) \o SonosQuery)
              /\ codecOut.value = TrackToTrackRadio(spotifyToSonosUri(codecIn).value)

C11_Witness ==
    /\ codecOp = "spotifyToSonosRadioUri"
    /\ codecIn = SpotifyTrackPrefix \o TestTrackId
    /\ codecOut.ok
    /\ codecOut.value # spotifyToSonosUri(codecIn).value

-----------------------------------------------------------------------------
(* Properties of escapeXml and buildSpotifyMetadata                        *)

XmlSpecials == {"&", "<", ">", "\"", "'"}

\* the entity that stands for a special character; any other character
\* stands for itself
Entity(c) ==
    CASE c = "&" -> AmpText
      [] c = "<" -> LtText
      [] c = ">" -> GtText
      [] c = "\"" -> QuotText
      [] c = "'" -> AposText
      [] OTHER -> <<c>>

\* s with every character replaced by what stands for it, in one pass
RECURSIVE EscapedOnce(_)
EscapedOnce(s) ==
    IF s = <<>> THEN <<>> ELSE Entity(Head(s)) \o EscapedOnce(Tail(s))

\* C12: escapeXml(s) is s with each &, <, >, " and ' replaced by its entity,
\* once per original character (the & of a produced entity is not escaped
\* again) and every other character kept in place; a string without the
\* five characters is returned as it is.
C12_EscapeOnce ==
    xmlOp = "escapeXml" =>
        /\ xmlOut = EscapedOnce(xmlIn.str)
        /\ (\A i \in 1..Len(xmlIn.str) : xmlIn.str[i] \notin XmlSpecials) =>
              xmlOut = xmlIn.str

C12_Witness ==
    /\ xmlOp = "escapeXml"
    /\ xmlIn.str = <<"<", "&", ";">>
    /\ xmlOut = LtText \o AmpText \o <<";">>

\* the number of occurrences of the character c in s
CountOf(s, c) == Cardinality({i \in 1..Len(s) : s[i] = c})

\* the track info with every non-empty value replaced by a plain letter
PlainInfo(info) ==
    [k \in DOMAIN info |->
        IF info[k] = None \/ info[k] = Some(<<>>) THEN info[k] ELSE Some(<<"x">>)]

\* C13: the document of buildSpotifyMetadata holds no unescaped &, <, >, "
\* or ' that comes from a substituted value: it has as many <, >, " and '
\* as the document built from plain values, and each & in it begins one of
\* the five entities.
C13_AllValuesEscaped ==
    xmlOp = "buildSpotifyMetadata" =>
        /\ \A c \in {"<", ">", "\"", "'"} :
              CountOf(xmlOut, c)
                  = CountOf(buildSpotifyMetadata(PlainInfo(xmlIn.trackInfo)), c)
        /\ \A i \in 1..Len(xmlOut) :
              xmlOut[i] = "&" =>
                  \E c \in XmlSpecials : OccursAt(xmlOut, Entity(c), i)

\* parts of the document that show a default in its element
DefaultTitleElement ==
    <<"<", "d", "c", ":", "t", "i", "t", "l", "e", ">", "U", "n", "k", "n",
      "o", "w", "n", " ", "T", "r", "a", "c", "k", "<", "/", "d", "c", ":",
      "t", "i", "t", "l", "e", ">">>

DefaultCreatorElement ==
    <<"<", "d", "c", ":", "c", "r", "e", "a", "t", "o", "r", ">", "U", "n",
      "k", "n", "o", "w", "n", " ", "A", "r", "t", "i", "s", "t", "<", "/",
      "d", "c", ":", "c", "r", "e", "a", "t", "o", "r", ">">>

DefaultAlbumElement ==
    <<"<", "u", "p", "n", "p", ":", "a", "l", "b", "u", "m", ">", "U", "n",
      "k", "n", "o", "w", "n", " ", "A", "l", "b", "u", "m", "<", "/", "u",
      "p", "n", "p", ":", "a", "l", "b", "u", "m", ">">>

\* the res element with an empty resource URI
EmptyResElement ==
    <<"<", "r", "e", "s", " ", "p", "r", "o", "t", "o", "c", "o", "l", "I",
      "n", "f", "o", "=", "\"", "s", "o", "n", "o", "s", ".", "c", "o",
      "m", "-", "s", "p", "o", "t", "i", "f", "y", ":", "*", ":", "a", "u",
      "d", "i", "o", "/", "x", "-", "s", "p", "o", "t", "i", "f", "y", ":",
      "*", "\"", ">", "<", "/", "r", "e", "s", ">">>

\* the root element's start and end
DidlRootOpen ==
    <<"<", "D", "I", "D", "L", "-", "L", "i", "t", "e", " ">>

DidlRootClose ==
    <<"<", "/", "D", "I", "D", "L", "-", "L", "i", "t", "e", ">">>

\* C14: buildSpotifyMetadata puts 'Unknown Track', 'Unknown Artist' and
\* 'Unknown Album' in the place of each of title, artist and album that is
\* absent (and not of one that is present), and with an absent or empty
\* track id it still returns a DIDL-Lite document, with an empty res element.
C14_Defaults ==
    xmlOp = "buildSpotifyMetadata" =>
        LET info == xmlIn.trackInfo IN
        /\ OccursAt(xmlOut, DidlRootOpen, 1)
        /\ OccursAt(xmlOut, DidlRootClose, Len(xmlOut) - Len(DidlRootClose) + 1)
        /\ Includes(xmlOut, DefaultTitleElement) <=> info.title = None
        /\ Includes(xmlOut, DefaultCreatorElement) <=> info.artist = None
        /\ Includes(xmlOut, DefaultAlbumElement) <=> info.album = None
        /\ (info.trackId = None \/ info.trackId = Some(<<>>)) =>
              Includes(xmlOut, EmptyResElement)

C14_Witness ==
    /\ xmlOp = "buildSpotifyMetadata"
    /\ xmlIn.trackInfo = EmptyTrackInfo
    /\ Includes(xmlOut, UnknownTrackText)
    /\ Includes(xmlOut, UnknownArtistText)
    /\ Includes(xmlOut, UnknownAlbumText)
    /\ Includes(xmlOut, EmptyResElement)

-----------------------------------------------------------------------------
(* Properties of rankSearchResults                                         *)

\* rankSearchResults was called and returned a list
RankReturned == rankOut # <<>> /\ rankOut[1].ok

\* the filters and the query as the ranking compares them
AskedQuery == trim(toLowerCase(rankIn.query))
AskedArtist == trim(toLowerCase(rankIn.artist))
AskedTrack == trim(toLowerCase(rankIn.track))

\* the candidates of the call
Candidates == 1..Len(rankIn.tracks)

\* the lower-cased name, artist names and first artist name of candidate i
NameOf(i) == toLowerCase(rankIn.tracks[i].name[1])
ArtistsOf(i) ==
    {toLowerCase(rankIn.tracks[i].artists[k]) : k \in 1..Len(rankIn.tracks[i].artists)}
PrimaryArtistOf(i) ==
    IF rankIn.tracks[i].artists = <<>> THEN <<>>
    ELSE toLowerCase(rankIn.tracks[i].artists[1])

\* the popularity of candidate i, 0 when the record has none
PopularityOf(i) ==
    IF rankIn.tracks[i].popularity = None THEN 0 ELSE rankIn.tracks[i].popularity[1]

\* the place of candidate i in the returned list, and its returned score
PlaceOf(i) ==
    CHOOSE k \in 1..Len(rankOut[1].value) :
        rankOut[1].value[k].uri = rankIn.tracks[i].uri
ScoreOf(i) == rankOut[1].value[PlaceOf(i)].relevanceScore

\* the sum of the amounts added to the score of candidate i
StepSum(i) ==
    rankSteps[i].popularity + rankSteps[i].track + rankSteps[i].artist
    + rankSteps[i].full + rankSteps[i].contains + rankSteps[i].words
    + rankSteps[i].fuzzy + rankSteps[i].fuzzyFull

\* the track filter bonus and the artist filter bonus of candidate i
TrackFilterBonus(i) ==
    IF AskedTrack = <<>> THEN 0
    ELSE IF NameOf(i) = AskedTrack THEN 100
    ELSE IF Includes(NameOf(i), AskedTrack) THEN 50
    ELSE 0

ArtistFilterBonus(i) ==
    IF AskedArtist = <<>> THEN 0
    ELSE IF AskedArtist \in ArtistsOf(i) THEN 100
    ELSE IF \E a \in ArtistsOf(i) : Includes(a, AskedArtist) THEN 50
    ELSE 0

C16_NameInQuery ==
    RankReturned =>
        \A i \in Candidates :
            LET bonus == IF AskedQuery # <<>> /\ Includes(AskedQuery, NameOf(i))
                         THEN Points(40) ELSE 0
            IN  /\ rankSteps[i].contains = bonus
                /\ ScoreOf(i) = StepSum(i) - rankSteps[i].contains + bonus

C16_Witness ==
    /\ RankReturned
    /\ rankIn.query = <<"m", "u", "s", "e", " ", "n", "e", "w", " ", "b", "o", "r", "n">>
    /\ \E i \in Candidates :
          /\ rankIn.tracks[i] = RankTrackA
          /\ ~Includes(NameOf(i), AskedQuery)
          /\ rankSteps[i].contains = Points(40)

\* C16: a candidate gets the +40 exactly when the non-empty normalized
\* free-form query is a substring of the lower-cased track name.
C16_QueryInName ==
    RankReturned =>
        \A i \in Candidates :
            LET bonus == IF AskedQuery # <<>> /\ Includes(NameOf(i), AskedQuery)
                         THEN Points(40) ELSE 0
            IN  /\ rankSteps[i].contains = bonus
                /\ ScoreOf(i) = StepSum(i) - rankSteps[i].contains + bonus

\* the word w contains, or is contained in, some word of the list
MeetsWordOf(w, words) ==
    \E k \in 1..Len(words) : Includes(words[k], w) \/ Includes(w, words[k])

\* C17: the word-overlap bonus is 25 times the match total: the query is
\* split on whitespace, each token longer than 2 characters counts 1 if it
\* contains or is contained in a word of the track name, else 0.5 if it
\* contains or is contained in a word of 'primaryArtist trackName', else 0;
\* tokens of 2 characters or less count nothing.
C17_WordOverlap ==
    RankReturned =>
        LET tokens == splitWhitespace(AskedQuery)
            counting == {k \in 1..Len(tokens) : Len(tokens[k]) > 2}
        IN  \A i \in Candidates :
                LET nameWords == splitWhitespace(NameOf(i))
                    fullWords == splitWhitespace(PrimaryArtistOf(i) \o <<" ">>
                                                 \o NameOf(i))
                    inName == {k \in counting : MeetsWordOf(tokens[k], nameWords)}
                    inFull == {k \in counting \ inName :
                                  MeetsWordOf(tokens[k], fullWords)}
                    halves == 2 * Cardinality(inName) + Cardinality(inFull)
                IN  /\ rankSteps[i].words = 25 * halves
                    /\ ScoreOf(i) = StepSum(i) - rankSteps[i].words + 25 * halves

C17_Witness ==
    /\ RankReturned
    /\ rankIn.query = <<"m", "u", "s", "e", " ", "n", "e", "w", " ", "b", "o", "r", "n">>
    /\ \E i \in Candidates :
          /\ rankIn.tracks[i] = RankTrackA
          /\ rankSteps[i].words = 125

\* C18: with a non-empty free-form query and all whitespace removed from
\* query, track name and artist+track: +80 if the track name equals the
\* query, else +50 if the track name contains it, else 0; and apart from
\* that +40 if primaryArtist+trackName contains the query.
C18_SpaceInsensitive ==
    (RankReturned /\ AskedQuery # <<>>) =>
        \A i \in Candidates :
            LET query == removeWhitespace(AskedQuery)
                name == removeWhitespace(NameOf(i))
                full == removeWhitespace(PrimaryArtistOf(i) \o NameOf(i))
                nameBonus == IF name = query THEN Points(80)
                             ELSE IF Includes(name, query) THEN Points(50)
                             ELSE 0
                fullBonusOf == IF Includes(full, query) THEN Points(40) ELSE 0
            IN  /\ rankSteps[i].fuzzy = nameBonus
                /\ rankSteps[i].fuzzyFull = fullBonusOf
                /\ ScoreOf(i) = StepSum(i) - rankSteps[i].fuzzy - rankSteps[i].fuzzyFull
                                + nameBonus + fullBonusOf

C18_Witness ==
    /\ RankReturned
    /\ rankIn.query = <<"N", "e", "w", "b", "o", "r", "n">>
    /\ \E i, j \in Candidates :
          /\ rankIn.tracks[i] = RankTrackA
          /\ rankSteps[i].fuzzy = Points(80)
          /\ rankSteps[i].fuzzyFull = Points(40)
          /\ rankIn.tracks[j] = RankTrackD
          /\ rankSteps[j].fuzzy = 0

AsGiven(t) == [t EXCEPT !.relevanceScore = 0]

\* C20: the returned list is a permutation of the candidates, by
\* non-increasing score, candidates of equal score in their input order; a
\* second call with the same arguments returns the same list.
C20_StableOrder ==
    RankReturned =>
        LET ranked == rankOut[1].value IN
        /\ Len(ranked) = Len(rankIn.tracks)
        /\ \A i \in Candidates :
              \E k \in 1..Len(ranked) : AsGiven(ranked[k]) = rankIn.tracks[i]
        /\ \A i, j \in Candidates :
              i < j =>
                 /\ PlaceOf(i) # PlaceOf(j)
                 /\ ScoreOf(i) >= ScoreOf(j) => PlaceOf(i) < PlaceOf(j)
                 /\ ScoreOf(i) < ScoreOf(j) => PlaceOf(j) < PlaceOf(i)
        /\ \A n \in 1..Len(rankOut) : rankOut[n] = rankOut[1]

C20_Witness ==
    /\ Len(rankOut) = 2
    /\ rankOut[1].ok
    /\ rankOut[2] = rankOut[1]
    /\ rankIn.query = <<"n", "e", "w", " ", "b", "o", "r", "n">>
    /\ rankIn.tracks = <<RankTrackE, RankTrackA, RankTrackD, RankTrackB, RankTrackC>>
    /\ rankOut[1].value[1].uri = RankTrackA.uri
    /\ rankOut[1].value[2].uri = RankTrackB.uri
    /\ rankOut[1].value[1].relevanceScore = rankOut[1].value[2].relevanceScore
    /\ rankOut[1].value[5].uri = RankTrackE.uri

-----------------------------------------------------------------------------
(* Properties of searchAndPlay and of the routes                           *)

\* the searchAndPlay call of the request has ended and its search yielded no
\* candidate: no search request was sent (the search string was blank), or
\* the last one came back with no items
ZeroCandidates(f) ==
    /\ f.fn = "searchAndPlay"
    /\ f.pc = "done"
    /\ \/ f.found = <<>>
       \/ f.found[Len(f.found)] = ApiItems(<<>>)

\* C22: when the search yields no candidate, searchAndPlay returns
\* { success: false, error: 'No matching tracks found', query } without
\* raising, and the request has issued no speaker action and no Spotify
\* pause; a call with query, artist and track all empty ends this way
\* without a search request.
C22_NotFound ==
    \A r \in Reqs :
        LET f == req[r] IN
        /\ ZeroCandidates(f) =>
              /\ ~f.rejected
              /\ f.result = Some(Outcome(FALSE, Some(NoMatchText), None, <<>>,
                                         Some([q |-> f.search.query,
                                               artist |-> f.search.artist,
                                               track |-> f.search.track])))
              /\ f.sent = <<>>
              /\ f.pauseCalls = 0
        /\ (/\ f.fn = "searchAndPlay"
            /\ f.search.query = <<>> /\ f.search.artist = <<>> /\ f.search.track = <<>>) =>
              ZeroCandidates(f) /\ f.searchCalls = 0

\* the search came back with an empty list of items
C22_Witness ==
    \E r \in Reqs :
        /\ ZeroCandidates(req[r])
        /\ req[r].found = <<ApiItems(<<>>)>>
        /\ req[r].result[1].error = Some(NoMatchText)

\* the items of the last search response of the request
LastFound(f) == f.found[Len(f.found)].items

\* the search of the request yielded candidates, each with a name and an
\* artist, and the request has passed its search
HasCandidates(f) ==
    /\ f.fn = "searchAndPlay"
    /\ f.found # <<>>
    /\ f.pc # "searchSpotify:get"
    /\ f.found[Len(f.found)].kind = "ok"
    /\ LastFound(f) # <<>>
    /\ \A i \in 1..Len(LastFound(f)) :
          LastFound(f)[i].name # None /\ LastFound(f)[i].artists # <<>>

\* C23: with n >= 1 ranked candidates searchAndPlay plays the candidate at
\* ranked position 0 and returns it as the chosen track, and it returns as
\* alternatives exactly the candidates at ranked positions 1..min(4, n-1), in
\* ranked order: never the chosen track and never more than 4.
C23_ChosenAndAlternatives ==
    \A r \in Reqs :
        LET f == req[r]
            n == Len(f.ranked)
        IN  HasCandidates(f) =>
              /\ f.ranked = rankSearchResults(LastFound(f), f.search.query,
                                              f.search.artist, f.search.track).value
              /\ f.args.spotifyUri = f.ranked[1].uri
              /\ \A i \in 1..Len(f.sent) :
                    f.sent[i].action = "SetAVTransportURI" =>
                        f.sent[i].meta.trackId = SplitTrackId(f.ranked[1].uri)
              /\ f.pc = "done" =>
                    /\ ~f.rejected
                    /\ f.result[1].track =
                          Some([name |-> f.ranked[1].name[1],
                                artist |-> f.ranked[1].artists[1],
                                uri |-> f.ranked[1].uri,
                                popularity |-> f.ranked[1].popularity,
                                relevanceScore |-> f.ranked[1].relevanceScore])
                    /\ Len(f.result[1].alternatives) = Min(4, n - 1)
                    /\ \A i \in 1..Min(4, n - 1) :
                          /\ f.result[1].alternatives[i] =
                                [name |-> f.ranked[i + 1].name[1],
                                 artist |-> f.ranked[i + 1].artists[1],
                                 uri |-> f.ranked[i + 1].uri]
                          /\ f.result[1].alternatives[i].uri # f.result[1].track[1].uri

\* six candidates: the first is played and the next four are the alternatives
C23_Witness ==
    \E r \in Reqs :
        /\ HasCandidates(req[r])
        /\ Len(req[r].ranked) = 6
        /\ req[r].pc = "done"
        /\ req[r].result[1].success
        /\ Len(req[r].result[1].alternatives) = 4
        /\ req[r].result[1].alternatives[4].uri = req[r].ranked[5].uri

\* the action names the request has issued follow the single-track sequence
\* or the continuous-mode sequence of its arguments, completely when the
\* playback reported success
FollowsSequence(f, sequence) ==
    /\ IsPrefix(ActionNames(f), sequence)
    /\ (f.pc = "done" /\ f.result[1].success) => ActionNames(f) = sequence

\* C24: searchAndPlay runs the continuous-mode sequence (track, then the
\* radio SetAVTransportURI and Play) when options.radio is true or absent,
\* and only the single-track sequence of playSpotifyTrack, with no second
\* SetAVTransportURI, when it is false; POST /search passes false exactly for
\* the parameter values false and 'false', and true for every other.
C24_ContinuousMode ==
    \A r \in Reqs :
        LET f == req[r] IN
        /\ HasCandidates(f) =>
              /\ f.search.radioOption \in {None, Some(TRUE)} =>
                    FollowsSequence(f, RadioSequence(f.args))
              /\ f.search.radioOption = Some(FALSE) =>
                    /\ FollowsSequence(f, TrackSequence(f.args))
                    /\ \A i \in 1..Len(f.sent) :
                          f.sent[i].action = "SetAVTransportURI" =>
                              Returned(f.sent[i].uri) = spotifyToSonosUri(f.args.spotifyUri)
        /\ (f.route = "POST /search" /\ f.fn = "searchAndPlay") =>
              f.search.radioOption =
                  Some(f.params.radio \notin {BooleanValue(FALSE), StringValue(FalseText)})

\* POST /search with radio=0 has played the track and gone on to the radio
C24_Witness ==
    \E r \in Reqs :
        /\ req[r].route = "POST /search"
        /\ req[r].params.radio = NumberValue(0)
        /\ HasCandidates(req[r])
        /\ req[r].pc = "done"
        /\ req[r].result[1].success
        /\ ActionNames(req[r]) = <<"SetAVTransportURI", "Play", "SetAVTransportURI", "Play">>

\* C29: a /search route answers 400 and performs no search when q, artist
\* and track are all empty; otherwise it answers once searchAndPlay has
\* returned: 200 with success true exactly when searchAndPlay reports
\* success, 404 exactly when the error is 'No matching tracks found', and 500
\* for every other failure.  One response is sent per request, none before
\* the handler has ended.
C29_SearchRouteStatus ==
    \A r \in Reqs :
        LET f == req[r]
            allEmpty == f.params.q = <<>> /\ f.params.artist = <<>> /\ f.params.track = <<>>
        IN  f.route \in SearchRoutes =>
              /\ Len(f.responses) = (IF f.pc = "done" THEN 1 ELSE 0)
              /\ allEmpty =>
                    /\ f.pc = "done"
                    /\ f.responses[1].status = 400
                    /\ ~f.responses[1].body.success
                    /\ f.fn = "none" /\ f.searchCalls = 0 /\ f.sent = <<>>
              /\ (~allEmpty /\ f.pc = "done") =>
                    LET res == f.responses[1]
                        result == f.result[1]
                    IN  /\ ~f.rejected
                        /\ res.status \in {200, 404, 500}
                        /\ res.body.success = result.success
                        /\ res.status = 200 <=> result.success
                        /\ res.status = 404 <=>
                              ~result.success /\ result.error = Some(NoMatchText)
                        /\ ~result.success => res.body.error = result.error

\* GET /search?q=%20 is answered 404 without a search request
C29_Witness ==
    \E r \in Reqs :
        /\ req[r].route = "GET /search"
        /\ req[r].params.q = <<" ">>
        /\ req[r].params.track = <<>>
        /\ req[r].searchCalls = 0
        /\ req[r].responses # <<>>
        /\ req[r].responses[1].status = 404

\* the request makes the speaker start playing through the server: favorite
\* playback, line-in switch, or search-and-play in either mode
StartsPlayback(f) ==
    f.fn \in {"playFavoriteAfterDelay", "switchToLineIn", "searchAndPlay"}

\* C25: every request that makes the speaker start playing first attempts to
\* pause Spotify, and its first Sonos command, Cloud or UPnP, is issued only
\* after that pause attempt has completed.
C25_PauseBeforeSonos ==
    \A r \in Reqs :
        (StartsPlayback(req[r]) /\ (req[r].sent # <<>> \/ req[r].cloud # <<>>)) =>
            req[r].pauseReplies # <<>>

\* the two routes that do not await their playback function
DetachedRoutes == {"POST /play/:favoriteName", "POST /line-in"}

\* the name POST /play/:favoriteName answers with, for the names offered
CleanedNameOf(name) ==
    IF name = <<"J", "z">> THEN name ELSE <<"a", " ", "b">>

AcceptedBodyOf(f) ==
    IF f.route = "POST /line-in"
    THEN TextBody(LineInAcceptedText)
    ELSE TextBody(WebhookForText \o CleanedNameOf(f.params.favoriteName)
                  \o AcceptedPlaybackText)

\* C26: for POST /play/:favoriteName and POST /line-in the 202 response is
\* sent by the handler itself, before any Spotify or Sonos call of the
\* request has completed; it is the only response, its status and body
\* depend on the request alone and stay the same whatever becomes of the
\* playback task, and the task's promise never rejects.
C26_FireAndForget ==
    \A r \in Reqs :
        req[r].route \in DetachedRoutes =>
            /\ req[r].responses =
                  <<[status |-> 202, body |-> AcceptedBodyOf(req[r]), after |-> 0]>>
            /\ ~req[r].rejected

\* the favorites could not be loaded, and the answer had been sent
C26_Witness ==
    \E r \in Reqs :
        /\ req[r].route = "POST /play/:favoriteName"
        /\ req[r].pc = "done"
        /\ Len(req[r].cloud) = 5
        /\ req[r].cloudReplies[5] = "failed"
        /\ req[r].responses[1].status = 202

\* C30: a favorite-playback request makes no Sonos Cloud call before its
\* Spotify pause attempt has completed and the arrival delay DELAY_MS has
\* then fully elapsed; with an empty favorite name it makes no Spotify or
\* Sonos call at all.
C30_ArrivalDelay ==
    \A r \in Reqs :
        LET f == req[r] IN
        f.fn = "playFavoriteAfterDelay" =>
            /\ f.cloud # <<>> =>
                  /\ f.pauseReplies # <<>>
                  /\ f.elapsed >= DELAY_MS
            /\ f.pc \in {"pauseSpotify:put", "playFavoriteAfterDelay:setTimeout"} =>
                  f.cloud = <<>>
            /\ f.favoriteName = <<>> =>
                  /\ f.pc = "done"
                  /\ f.pauseCalls = 0 /\ f.searchCalls = 0 /\ f.refreshCalls = 0
                  /\ f.cloud = <<>> /\ f.sent = <<>>

\* the favorite was loaded, after the pause and the delay
C30_Witness ==
    \E r \in Reqs :
        /\ req[r].fn = "playFavoriteAfterDelay"
        /\ req[r].cloud = PlayFavoriteCalls
        /\ req[r].cloudReplies = <<"ok", "ok", "ok", "ok", "ok", "ok">>
        /\ req[r].elapsed >= DELAY_MS
        /\ speaker.state = "PLAYING"

-----------------------------------------------------------------------------
(* Properties of requests that run at once                                 *)

\* the SetAVTransportURI actions the speaker accepted, oldest first, each as
\* <<request, position among the request's actions>>
RECURSIVE LoadsOf(_)
LoadsOf(arrived) ==
    IF arrived = <<>> THEN <<>>
    ELSE LET a == Head(arrived) IN
         (IF req[a[1]].sent[a[2]].action = "SetAVTransportURI" THEN <<a>> ELSE <<>>)
         \o LoadsOf(Tail(arrived))

\* the URI the action at that position is to carry, from the arguments of
\* its request: the radio URI at the radio position and else the track URI
IntendedUri(a) ==
    LET f == req[a[1]] IN
    IF f.fn = "playSpotifyTrackWithRadio" /\ a[2] = RadioIndex(f.args)
    THEN spotifyToSonosRadioUri(f.args.spotifyUri).value
    ELSE spotifyToSonosUri(f.args.spotifyUri).value

InSettlingDelay(f) ==
    f.pc = "playSpotifyTrackWithRadio:setTimeout" /\ ~timerDue(f.elapsed)

\* C28: while a request is suspended in the 2000 ms settling delay, another
\* request is not blocked: it can be received, and the reply to each action
\* it awaits can be taken and followed by its next action.
C28_DelayDoesNotBlock ==
    \A r \in Reqs : \A q \in Reqs \ {r} :
        InSettlingDelay(req[r]) =>
            /\ req[q].pc = "idle" => ENABLED RacePlaySpotifyTrack(q)
            /\ req[q].pc = "playSpotifyTrack:setVolume" =>
                  ENABLED PlaySpotifyTrackSetVolumeSettles(q)
            /\ req[q].pc = "playSpotifyTrack:setAVTransportURI" =>
                  ENABLED PlaySpotifyTrackLoadSettles(q)
            /\ req[q].pc = "playSpotifyTrack:play" =>
                  ENABLED PlaySpotifyTrackPlaySettles(q)

\* the second request has issued and completed all its actions after the
\* Play of the first was accepted, and the delay of the first has not ended
C28_Witness ==
    /\ InSettlingDelay(req["R1"])
    /\ req["R2"].fn = "playSpotifyTrack"
    /\ req["R2"].pc = "done"
    /\ req["R2"].result[1].success
    /\ speaker.arrived =
          << <<"R1", 1>>, <<"R1", 2>>, <<"R2", 1>>, <<"R2", 2>>, <<"R2", 3>> >>

-----------------------------------------------------------------------------
(* Properties of the speaker control facade and of the SOAP transport      *)

\* the action at position i of the request was built by setAVTransportURI
\* (and not by the radio step of playSpotifyTrackWithRadio)
BuiltBySetAVTransportURI(f, i) ==
    /\ f.sent[i].action = "SetAVTransportURI"
    /\ ~(f.fn \in {"playSpotifyTrackWithRadio", "searchAndPlay"}
         /\ i > 1 /\ f.sent[i - 1].action = "Play")

\* C35: in every SetAVTransportURI action built by setAVTransportURI, the
\* track id put into the display document (item id and resource URI) is the
\* id encoded in CurrentURI.
C35_SameTrackId ==
    \A r \in Reqs : \A i \in 1..Len(req[r].sent) :
        BuiltBySetAVTransportURI(req[r], i) =>
            req[r].sent[i].uri =
                SonosScheme \o EncodedTrackPrefix
                \o encodeURIComponent(req[r].sent[i].meta.trackId) \o SonosQuery

\* C31: a call of soapRequest settles exactly once, with what came back
\* first: it succeeds with the body exactly when the status is in 200..299,
\* fails with an error carrying the status and the body for any other status,
\* and fails with an error carrying the message when the request itself
\* failed; it is not settled before anything came back.
C31_SettlesByStatus ==
    soap.op = "soapRequest" =>
        IF soap.events = <<>>
        THEN soap.outcome = None /\ soap.settles = 0
        ELSE LET first == soap.events[1]
                 got == soap.outcome[1]
             IN /\ soap.outcome # None
                /\ soap.settles = 1
                /\ got.ok <=> (~first.net /\ first.status \in 200..299)
                /\ got.ok => got.value = first.data
                /\ (~got.ok /\ ~first.net) =>
                       got.error = SoapFailedText \o DecimalText(first.status)
                                   \o DashText \o first.data
                /\ (~got.ok /\ first.net) =>
                       got.error = SoapErrorText \o first.data

\* a status of 299 was accepted, or one of 199 or 300 refused, and a second
\* event came after the promise had settled
C31_Witness ==
    /\ soap.op = "soapRequest"
    /\ Len(soap.events) = 2
    /\ ~soap.events[1].net
    /\ soap.events[1].status \in {199, 299, 300}
    /\ soap.events[2].net
    /\ soap.settles = 1

-----------------------------------------------------------------------------
(* Properties of favorite playback                                         *)

\* the favorites were fetched and hold no favorite of the wanted name (the
\* list is empty, or no name in it equals the wanted one in lower case)
NoFavoriteMatches(f) ==
    /\ f.fn = "playFavoriteAfterDelay"
    /\ Len(f.cloudReplies) >= 5
    /\ f.cloud[5] = "GET /households/:id/favorites"
    /\ f.cloudReplies[5] = "missing"

\* C37: when no favorite matches the wanted name, playFavoriteAfterDelay has
\* made no state-changing Sonos call: no favorites-load command and no
\* group volume command.
C37_NoMatchNoChange ==
    \A r \in Reqs :
        NoFavoriteMatches(req[r]) =>
            \A i \in 1..Len(req[r].cloud) :
                req[r].cloud[i] \notin {"POST /groups/:id/groupVolume",
                                        "POST /groups/:id/favorites"}

-----------------------------------------------------------------------------
(* Properties of the Spotify pause step                                    *)

\* the step that follows the pause in the request's function has run: the
\* arrival timer was set, the Sonos group was asked for, or the first SOAP
\* action was sent
AfterPauseRan(f) ==
    CASE f.fn = "playFavoriteAfterDelay" ->
            f.pc = "playFavoriteAfterDelay:setTimeout" \/ f.elapsed >= DELAY_MS
      [] f.fn = "switchToLineIn" ->
            f.cloud # <<>> \/ (f.pc = "done" /\ f.result = Some(UndefinedValue))
      [] OTHER -> f.sent # <<>>

\* C33: pauseSpotify never throws, whatever the pause request came back
\* with (success, 404 'no active device', another status, a network error):
\* the request goes on exactly as after a successful pause, to its delay
\* and its Sonos steps.
C33_PauseTolerant ==
    \A r \in Reqs :
        LET f == req[r] IN
        /\ f.pauseReplies # <<>> => (~f.rejected /\ AfterPauseRan(f))
        /\ f.pc = "pauseSpotify:put" =>
              \A reply \in PauseReplies, tokens \in SonosTokenFiles :
                  pauseSpotifyAfterPut(f, reply, tokens)
                      = pauseSpotifyAfterPut(f, ApiItems(<<>>), tokens)

\* the pause failed with a network error, and the favorite was then loaded
\* after the delay
C33_Witness ==
    \E r \in Reqs :
        /\ req[r].fn = "playFavoriteAfterDelay"
        /\ req[r].pauseReplies = <<ApiNetworkError>>
        /\ req[r].elapsed >= DELAY_MS
        /\ req[r].cloud = PlayFavoriteCalls
        /\ req[r].cloudReplies = <<"ok", "ok", "ok", "ok", "ok", "ok">>
        /\ req[r].pc = "done"
        /\ speaker.state = "PLAYING"

-----------------------------------------------------------------------------
(* Properties of the order of receipt                                      *)

\* the URIs the SetAVTransportURI actions of the request carried
UrisSetBy(f) ==
    {f.sent[i].uri : i \in {j \in 1..Len(f.sent) : f.sent[j].action = "SetAVTransportURI"}}

CompletedWithSuccess(f) ==
    f.pc = "done" /\ f.result # None /\ f.result[1].success

\* C40: when a playback request was received after another and both have
\* completed with success, the URI loaded on the speaker is one the later
\* request set.
C40_LatestRequestWins ==
    \A r1 \in Reqs : \A r2 \in Reqs :
        (/\ req[r1].seq > 0
         /\ req[r2].seq > req[r1].seq
         /\ CompletedWithSuccess(req[r1])
         /\ CompletedWithSuccess(req[r2])) =>
            speaker.uri \in UrisSetBy(req[r2])

\* the URI the last SetAVTransportURI of the request is to carry, from its
\* arguments: its radio URI in continuous mode and else its track URI
LastUriOf(f) ==
    IF f.fn = "playSpotifyTrackWithRadio"
    THEN spotifyToSonosRadioUri(f.args.spotifyUri).value
    ELSE spotifyToSonosUri(f.args.spotifyUri).value

\* C40 (as the code has it): when a playback request was received after
\* another and both have completed with success, the URI loaded on the
\* speaker is the one of the SetAVTransportURI the speaker accepted last:
\* one the later request set when that action was its own, and else the
\* last URI of the earlier request (its radio URI in continuous mode).
C40_LastAcceptedLoadWins ==
    \A r1 \in Reqs : \A r2 \in Reqs :
        (/\ req[r1].seq > 0
         /\ req[r2].seq > req[r1].seq
         /\ CompletedWithSuccess(req[r1])
         /\ CompletedWithSuccess(req[r2])) =>
            LET loads == LoadsOf(speaker.arrived)
                last == loads[Len(loads)]
            IN  /\ last[1] = r2 => speaker.uri \in UrisSetBy(req[r2])
                /\ last[1] = r1 => speaker.uri = LastUriOf(req[r1])
                /\ last[1] \in {r1, r2}

\* the later request played its track during the delay of the earlier one,
\* whose radio then replaced it
C40_Witness ==
    /\ req["R1"].seq = 1 /\ req["R1"].fn = "playSpotifyTrackWithRadio"
    /\ req["R2"].seq = 2 /\ req["R2"].fn = "playSpotifyTrack"
    /\ CompletedWithSuccess(req["R1"])
    /\ CompletedWithSuccess(req["R2"])
    /\ speaker.uri = spotifyToSonosRadioUri(req["R1"].args.spotifyUri).value
    /\ speaker.uri \notin UrisSetBy(req["R2"])

-----------------------------------------------------------------------------
(* Properties of the volume sent to Sonos                                  *)

\* the value is a number within 0..100
InVolumeRange(v) == v.type = "number" /\ v.number >= 0 /\ v.number <= 100

\* C34: every volume sent to Sonos for a request that came in by an HTTP
\* route (the groupVolume of the Sonos Cloud, the SetVolume of the speaker)
\* is a number within 0..100; and a POST /volume whose volume is missing, not
\* a number or out of range is answered 400 and sends nothing to Sonos.
C34_VolumeInRange ==
    \A r \in Reqs :
        LET f == req[r] IN
        f.route # "none" =>
            /\ \A i \in 1..Len(f.volumes) : InVolumeRange(f.volumes[i])
            /\ \A i \in 1..Len(f.sent) :
                   f.sent[i].action = "SetVolume" =>
                       /\ f.sent[i].volume # None
                       /\ f.sent[i].volume[1] \in 0..100
            /\ (f.route = "POST /volume" /\ ~InVolumeRange(f.params.volume)) =>
                   /\ f.pc = "done"
                   /\ Len(f.responses) = 1
                   /\ f.responses[1].status = 400
                   /\ f.cloud = <<>>
                   /\ f.sent = <<>>

\* a POST /volume with the volume 100 has posted it as the group volume and
\* the speaker has taken it
C34_Witness ==
    \E r \in Reqs :
        /\ req[r].route = "POST /volume"
        /\ req[r].volumes = <<NumberValue(100)>>
        /\ req[r].pc = "done"
        /\ req[r].responses # <<>>
        /\ req[r].responses[1].status = 202
        /\ speaker.volume = 100

-----------------------------------------------------------------------------
(* Properties of the token refresh                                         *)

\* C36: refreshSonosToken and refreshSpotifyToken never reject: a call that
\* has ended has resolved to true or to false, also when the refresh of a
\* timer and those of requests overlap and are refused with 400 or 401.
C36_RefreshNeverRejects ==
    \A c \in Refreshers :
        /\ refresh.calls[c].pc = "done" <=> refresh.calls[c].outcome # None
        /\ refresh.calls[c].outcome # None =>
               /\ refresh.calls[c].outcome[1].ok
               /\ refresh.calls[c].outcome[1].value \in BOOLEAN

-----------------------------------------------------------------------------
(* Properties of album playback                                            *)

\* the album search found an album and its tracks, and the route has answered
AlbumFound(f) ==
    /\ f.route = "POST /album"
    /\ f.album # None
    /\ f.pc = "done"

\* C38: when the album search of POST /album finds an album, the handler
\* issues speaker commands to play its tracks, and it answers 200 when the
\* speaker accepted them all and 500 only when the speaker refused one.
C38_AlbumPlays ==
    \A r \in Reqs :
        AlbumFound(req[r]) =>
            /\ req[r].sent # <<>>
            /\ Len(req[r].responses) = 1
            /\ req[r].responses[1].status \in {200, 500}
            /\ req[r].responses[1].status = 500 <=>
                   \E i \in 1..Len(req[r].replies) : ~soapRequest(req[r].replies[i]).ok

-----------------------------------------------------------------------------
(* Properties of termination                                               *)

\* C39: when every external call comes back, with a success or an error,
\* every searchAndPlay call ends with a result, whatever the answers are.
C39_SearchAndPlayCompletes ==
    \A r \in Reqs : (req[r].fn = "searchAndPlay") ~> (req[r].pc = "done")
====
